---------------------------- MODULE Spec2Model ----------------------------
(***************************************************************************)
(* Model of the Bookfinder API core (src/main.py, src/loc.py): the ISBN    *)
(* validator, the search merge _merge_and_deduplicate_results with its     *)
(* scorer, and the direct lookup get_book_by_isbn with _merge_loc_data.    *)
(*                                                                         *)
(* A Python str is a sequence of one-character strings, None is the value  *)
(* None below, a dict is a function whose DOMAIN is its set of keys, and   *)
(* a pydantic object lives in `heap` under an object id, so that two       *)
(* references to one object see each other's writes.                       *)
(***************************************************************************)
EXTENDS Integers, Sequences, FiniteSets, TLC

VARIABLES
    req,             \* which endpoint serves the request: "search" | "lookup"
    pc,              \* position inside the handler
    query,           \* search: the q parameter
    google_results,  \* search: list of object ids (Google mapper output)
    ol_results,      \* search: list of object ids (Open Library mapper output)
    loc_results,     \* search: list of dicts (loc.search_loc output)
    heap,            \* object id -> SearchResultItem
    heap0,           \* the input objects as they were when the merge was called
    merged_books,    \* search: the dict, as a list of [key, ref] in insertion order
    idx,             \* search: number of items of the current list already processed
    clean_loc_results, \* search: list of object ids (_loc_item_to_search_result output)
    final_list,      \* search: the returned list of object ids
    raw_isbn,        \* lookup: the path parameter
    isbn,            \* lookup: result of validate_and_clean_isbn
    http_error,      \* lookup: 0, or the status code of the HTTPException raised
    google_volume,   \* lookup: dict returned by get_google_data_by_isbn
    open_library_book, \* lookup: dict returned by get_open_library_data_by_isbn
    loc_data,        \* lookup: dict returned by loc.get_loc_data_by_isbn / _by_lccn
    work_data,       \* lookup: dict returned by get_open_library_work_details
    pre_loc_book,    \* lookup: the MergedBook as constructed, before _merge_loc_data
    merged_book,     \* lookup: the MergedBook returned
    scored_book,     \* score: the record score_book is applied to
    scored_query,    \* score: the query
    score,           \* score: the value returned by score_book
    gate_book,       \* gate: the record _is_valid_release is applied to
    now,             \* gate, releases: what datetime.now() returns
    is_valid,        \* gate: the value returned by _is_valid_release
    limit,           \* releases: the limit parameter
    start_index,     \* releases: the start_index parameter
    valid_books,     \* releases: the accumulated valid candidates
    current_offset,  \* releases: offset of the next fetch
    depth,           \* releases: number of batches processed
    release_batch,   \* releases: the batch being gated (ol_results of get_new_releases)
    book_idx,        \* releases: number of books of the batch already gated
    fetch_log,       \* releases: for each fetch issued, its offset and what the
                     \* loop had done when it was issued
    release_list,    \* releases: the list returned
    map_item,        \* map: the item _google_item_to_search_result is applied to
    mapped_item,     \* map: the SearchResultItem it returns
    categories_in,   \* categories: the list _process_rich_categories is applied to
    tags,            \* categories: the list it returns
    tags_again,      \* categories: what it returns for its own output
    tasks,           \* search, lookup: the awaitables handed to asyncio.gather, in order
    done,            \* search, lookup: the tasks that have completed
    results_tuple    \* search, lookup: what asyncio.gather returned, one result per task

vars == <<req, pc, query, google_results, ol_results, loc_results, heap, heap0,
          merged_books, idx, clean_loc_results, final_list, raw_isbn, isbn,
          http_error, google_volume, open_library_book, loc_data, work_data,
          pre_loc_book, merged_book, scored_book, scored_query, score, gate_book, now,
          is_valid, limit, start_index, valid_books, current_offset, depth,
          release_batch, book_idx, fetch_log, release_list, map_item,
          mapped_item, categories_in, tags, tags_again, tasks, done,
          results_tuple>>

searchVars == <<query, google_results, ol_results, loc_results, heap, heap0,
                merged_books, idx, clean_loc_results, final_list>>

lookupVars == <<raw_isbn, isbn, http_error, google_volume, open_library_book,
                loc_data, work_data, pre_loc_book, merged_book>>

scoreVars == <<scored_book, scored_query, score>>

gateVars == <<gate_book, now, is_valid>>

releaseVars == <<limit, start_index, valid_books, current_offset, depth,
                 release_batch, book_idx, fetch_log, release_list>>

mapVars == <<map_item, mapped_item, categories_in, tags, tags_again>>

gatherVars == <<tasks, done, results_tuple>>

otherVars == <<scoreVars, gateVars, releaseVars, mapVars>>

extraVars == <<otherVars, gatherVars>>

---------------------------------------------------------------------------
(* Python values *)

None == <<"None">>

\* Python truthiness of an Optional[str] / list / dict-or-empty value
Truthy(v) == v # None /\ v # <<>>

\* dict.get(k, default)
Get(d, k, default) == IF k \in DOMAIN d THEN d[k] ELSE default

EmptyDict == [k \in {} |-> None]

UpperSeq == <<"A","B","C","D","E","F","G","H","I","J","K","L","M",
              "N","O","P","Q","R","S","T","U","V","W","X","Y","Z">>
LowerSeq == <<"a","b","c","d","e","f","g","h","i","j","k","l","m",
              "n","o","p","q","r","s","t","u","v","w","x","y","z">>
DigitSeq == <<"0","1","2","3","4","5","6","7","8","9">>

Range(s) == {s[i] : i \in DOMAIN s}

IsSpace(c) == c \in {" ", "\t", "\n"}
IsDigitChar(c) == c \in Range(DigitSeq)

LowerChar(c) ==
    IF \E i \in DOMAIN UpperSeq : UpperSeq[i] = c
    THEN LowerSeq[CHOOSE i \in DOMAIN UpperSeq : UpperSeq[i] = c]
    ELSE c

UpperChar(c) ==
    IF \E i \in DOMAIN LowerSeq : LowerSeq[i] = c
    THEN UpperSeq[CHOOSE i \in DOMAIN LowerSeq : LowerSeq[i] = c]
    ELSE c

\* str.lower()
StrLower(s) == [i \in DOMAIN s |-> LowerChar(s[i])]

\* str.strip()
StrStrip(s) ==
    LET keep == {i \in DOMAIN s : ~IsSpace(s[i])}
    IN  IF keep = {} THEN <<>>
        ELSE LET lo == CHOOSE i \in keep : \A j \in keep : i <= j
                 hi == CHOOSE i \in keep : \A j \in keep : j <= i
             IN  SubSeq(s, lo, hi)

\* str.isdigit()
StrIsDigit(s) == s # <<>> /\ \A i \in DOMAIN s : IsDigitChar(s[i])

\* int(c) for a digit character
DigitVal(c) == (CHOOSE i \in DOMAIN DigitSeq : DigitSeq[i] = c) - 1

\* str(d) for 0 <= d <= 9
DigitChar(d) == DigitSeq[d + 1]

\* `needle in hay` for strings
StrContains(hay, needle) ==
    \E i \in 0..(Len(hay) - Len(needle)) :
        \A j \in 1..Len(needle) : hay[i + j] = needle[j]

RECURSIVE SumTo(_, _)
\* sum(f(i) for i in range(n)), f given as a function on 0..n-1
SumTo(f, n) == IF n = 0 THEN 0 ELSE f[n - 1] + SumTo(f, n - 1)

RECURSIVE Filter(_, _)
\* the subsequence of s of the elements in set keep
Filter(s, keep) ==
    IF s = <<>> THEN <<>>
    ELSE (IF Head(s) \in keep THEN <<Head(s)>> ELSE <<>>) \o Filter(Tail(s), keep)

---------------------------------------------------------------------------
(* ISBN validation and conversion, main.py 371-400 *)

_is_valid_isbn10_checksum(s) ==
    IF Len(s) # 10 \/ ~StrIsDigit(SubSeq(s, 1, 9)) THEN FALSE
    ELSE LET total == SumTo([i \in 0..8 |-> DigitVal(s[i + 1]) * (10 - i)], 9)
             check_digit == UpperChar(s[10])
         IN  IF check_digit = "X" THEN (total + 10) % 11 = 0
             ELSE IF IsDigitChar(check_digit)
                  THEN (total + DigitVal(check_digit)) % 11 = 0
                  ELSE FALSE

Isbn13Weight(i) == IF i % 2 = 0 THEN 1 ELSE 3

_is_valid_isbn13_checksum(s) ==
    IF Len(s) # 13 \/ ~StrIsDigit(s) THEN FALSE
    ELSE LET total == SumTo([i \in 0..11 |-> DigitVal(s[i + 1]) * Isbn13Weight(i)], 12)
             check_digit == (10 - (total % 10)) % 10
         IN  check_digit = DigitVal(s[13])

\* a conversion that prefixes 978 and keeps the ISBN-10 check character
PrefixOnlyConversion(isbn10) == <<"9","7","8">> \o isbn10

_convert_isbn10_to_isbn13(isbn10) ==
    LET base == <<"9","7","8">> \o SubSeq(isbn10, 1, Len(isbn10) - 1)
        total == SumTo([i \in 0..11 |-> DigitVal(base[i + 1]) * Isbn13Weight(i)], 12)
        check_digit == (10 - (total % 10)) % 10
    IN  base \o <<DigitChar(check_digit)>>

\* re.sub(r"[\s-]+", "", isbn)
CleanIsbn(s) == Filter(s, {s[i] : i \in DOMAIN s} \ {" ", "\t", "\n", "-"})

MinIdentifierLen == 8

\* validate_and_clean_isbn: the value returned, or None when it raises
\* HTTPException(400)
validate_and_clean_isbn(s) ==
    LET cleaned == CleanIsbn(s)
    IN  IF Len(cleaned) = 13 /\ _is_valid_isbn13_checksum(cleaned) THEN cleaned
        ELSE IF Len(cleaned) = 10 /\ _is_valid_isbn10_checksum(cleaned)
             THEN _convert_isbn10_to_isbn13(cleaned)
        ELSE IF StrIsDigit(cleaned) /\ Len(cleaned) >= MinIdentifierLen THEN cleaned
        ELSE None

---------------------------------------------------------------------------
(* Pydantic models, main.py 155-210 *)

\* a one-token value (an enum-like string, a number, an id) that is only ever
\* compared or tested for presence
Tok(x) == <<x>>

AuthorItem(name, key) == [name |-> name, key |-> key, bio |-> None]

SearchResultItem(title, subtitle, authors, isbn_13, isbn_10, publisher, published_date, average_rating, ratings_count, categories, google_book_id, open_library_work_id, cover_url, format_tag, description, data_sources, lccn) ==
    [title |-> title, subtitle |-> subtitle, authors |-> authors,
     isbn_13 |-> isbn_13, isbn_10 |-> isbn_10, publisher |-> publisher,
     published_date |-> published_date, average_rating |-> average_rating,
     ratings_count |-> ratings_count, categories |-> categories,
     google_book_id |-> google_book_id,
     open_library_work_id |-> open_library_work_id, cover_url |-> cover_url,
     series |-> None, format_tag |-> format_tag, description |-> description,
     data_sources |-> data_sources, lccn |-> lccn]

GoogleBooks == "Google Books"
OpenLibrary == "Open Library"
LibraryOfCongress == "Library of Congress"

\* s[:n]
Prefix(s, n) == SubSeq(s, 1, IF Len(s) < n THEN Len(s) ELSE n)

SubtitleCut == 100

\* _loc_item_to_search_result, main.py 497-518; the items are the dicts that
\* loc._normalize_loc_item builds, whose authors are dicts with a name
_loc_item_to_search_result(item) ==
    LET raw_authors == Get(item, "authors", <<>>)
        author_objects ==
            [i \in DOMAIN raw_authors |->
                AuthorItem(Get(raw_authors[i], "name", Tok("Unknown")), None)]
        desc == Get(item, "description", None)
    IN  SearchResultItem(
            Get(item, "title", Tok("Untitled Document")),
            IF Truthy(desc) THEN Prefix(desc, SubtitleCut) ELSE None,
            author_objects,
            None,
            None,
            Get(item, "publisher", None),
            Get(item, "published_date", None),
            None,
            None,
            Get(item, "subjects", <<>>),
            None,
            None,
            None,
            Tok("Primary Source"),
            desc,
            <<LibraryOfCongress>>,
            Get(item, "lccn", None))

---------------------------------------------------------------------------
(* _merge_and_deduplicate_results, main.py 520-599 *)

NoAuthPrefix == <<"n","o","a","u","t","h","-">>

\* get_fallback_key, main.py 528-530
get_fallback_key(item) ==
    IF item.authors = <<>>
    THEN NoAuthPrefix \o StrStrip(StrLower(item.title))
    ELSE StrStrip(StrLower(item.title)) \o <<"|">>
            \o StrStrip(StrLower(item.authors[1].name))

\* the key with the ISBN-13 left out: every record grouped by title and author
IdentityKeyIgnoringIsbn(item) == get_fallback_key(item)

\* key = item.isbn_13 or get_fallback_key(item), main.py 533 and 537
IdentityKey(item) ==
    IF Truthy(item.isbn_13) THEN item.isbn_13 ELSE get_fallback_key(item)

\* the dict merged_books as a list of [key, ref] entries in insertion order
DictKeys(d) == {d[i].key : i \in DOMAIN d}
DictGet(d, k) == d[CHOOSE i \in DOMAIN d : d[i].key = k].ref

\* an assignment that never replaces: a list used where the dict is
DictSetAppending(d, k, ref) == Append(d, [key |-> k, ref |-> ref])

\* merged_books[key] = item
DictSet(d, k, ref) ==
    IF k \in DictKeys(d)
    THEN [i \in DOMAIN d |-> IF d[i].key = k THEN [key |-> k, ref |-> ref] ELSE d[i]]
    ELSE Append(d, [key |-> k, ref |-> ref])

\* merged_books.values()
DictValues(d) == [i \in DOMAIN d |-> d[i].ref]

\* norm, main.py 570
Norm(s) ==
    LET low == StrLower(s)
    IN  Filter(low, Range(LowerSeq) \cup Range(DigitSeq))

RECURSIVE AuthorPenalty(_, _)
\* a loop over the authors that demotes a record for each matching author
AuthorPenalty(authors, q_clean) ==
    IF authors = <<>> THEN 0
    ELSE LET a_clean == Norm(Head(authors).name)
             here == IF q_clean = a_clean THEN 0 - 600
                     ELSE IF StrContains(a_clean, q_clean) /\ Len(q_clean) > 4
                          THEN 0 - 100 ELSE 0
         IN  here + AuthorPenalty(Tail(authors), q_clean)

RECURSIVE AuthorBoost(_, _)
\* the loop over book.authors, main.py 583-588
AuthorBoost(authors, q_clean) ==
    IF authors = <<>> THEN 0
    ELSE LET a_clean == Norm(Head(authors).name)
             here == IF q_clean = a_clean THEN 600
                     ELSE IF StrContains(a_clean, q_clean) /\ Len(q_clean) > 4
                          THEN 100 ELSE 0
         IN  here + AuthorBoost(Tail(authors), q_clean)

\* a scorer that has every boost of score_book but the indie rescue
ScoreWithoutRescue(book, q) ==
    LET base == (IF Truthy(book.cover_url) THEN 10 ELSE 0)
              + (IF Truthy(book.isbn_13) THEN 5 ELSE 0)
              + (IF LibraryOfCongress \in Range(book.data_sources) THEN 3 ELSE 0)
              + (IF Truthy(book.published_date) THEN 1 ELSE 0)
        q_clean == Norm(q)
        t_clean == Norm(book.title)
        title_boost ==
            IF Truthy(book.title)
            THEN IF q_clean = t_clean THEN 500
                 ELSE IF StrContains(t_clean, q_clean) /\ Len(q_clean) > 5
                      THEN 20 ELSE 0
            ELSE 0
    IN  IF q # <<>> THEN base + title_boost + AuthorBoost(book.authors, q_clean)
        ELSE base

\* score_book, main.py 561-595
score_book(book, q) ==
    LET base == (IF Truthy(book.cover_url) THEN 10 ELSE 0)
              + (IF Truthy(book.isbn_13) THEN 5 ELSE 0)
              + (IF LibraryOfCongress \in Range(book.data_sources) THEN 3 ELSE 0)
              + (IF Truthy(book.published_date) THEN 1 ELSE 0)
        q_clean == Norm(q)
        t_clean == Norm(book.title)
        title_boost ==
            IF Truthy(book.title)
            THEN IF q_clean = t_clean THEN 500
                 ELSE IF StrContains(t_clean, q_clean) /\ Len(q_clean) > 5
                      THEN 20 ELSE 0
            ELSE 0
        author_boost == AuthorBoost(book.authors, q_clean)
        indie_rescue ==
            IF Truthy(book.title) /\ ~Truthy(book.cover_url) /\ q_clean = t_clean
            THEN 200 ELSE 0
    IN  IF q # <<>> THEN base + title_boost + author_boost + indie_rescue
        ELSE base

\* a descending sort that puts entries of equal score in reverse order (the
\* scores and the result are tuples, so that each score is computed once)
SortByScoreTiesReversed(refs, h, q) ==
    LET scores == <<>> \o [i \in DOMAIN refs |-> score_book(h[refs[i]], q)]
        sc(i) == scores[i]
        rank(i) == Cardinality({j \in DOMAIN refs :
                        sc(j) > sc(i) \/ (sc(j) = sc(i) /\ j > i)}) + 1
    IN  <<>> \o [p \in DOMAIN refs |-> refs[CHOOSE i \in DOMAIN refs : rank(i) = p]]

\* final_list.sort(key=score_book, reverse=True): a stable sort, so an entry
\* goes after every entry of higher score and every earlier entry of equal
\* score; the key of each entry is computed once, as list.sort does
SortByScore(refs, h, q) ==
    LET scores == <<>> \o [i \in DOMAIN refs |-> score_book(h[refs[i]], q)]
        sc(i) == scores[i]
        rank(i) == Cardinality({j \in DOMAIN refs :
                        sc(j) > sc(i) \/ (sc(j) = sc(i) /\ j < i)}) + 1
    IN  <<>> \o [p \in DOMAIN refs |-> refs[CHOOSE i \in DOMAIN refs : rank(i) = p]]

---------------------------------------------------------------------------
(* The values the sources may return *)

\* the total number of records the three sources return to one search
MaxRecords == 3

sFoo == <<"F","o","o">>
sFooLower == <<"f","o","o">>
sFooPadded == <<" ","f","o","o">>
sFooUpper == <<"F","O","O">>
sBaz == <<"B","a","z">>
sFooBar == <<"F","o","o"," ","B","a","r">>
sFooBarLower == <<"f","o","o"," ","b","a","r">>
sFooBarWide == <<"f","o","o"," "," ","b","a","r">>
sAl == <<"A","l">>
sAlPadded == <<"a","l"," ">>
sAlUpper == <<"A","L">>
sBo == <<"B","o">>

Isbn13A == <<"9","7","8","0","3","0","6","4","0","6","1","5","7">>
Isbn10A == <<"0","3","0","6","4","0","6","1","5","2">>
Isbn13B == <<"9","7","8","0","0","0","0","0","0","0","0","0","2">>

sFiction == <<"F","i","c","t","i","o","n">>
sMagic == <<"M","a","g","i","c">>
sHistory == <<"H","i","s","t","o","r","y">>

\* what _google_item_to_search_result returns (main.py 419-468): its own
\* data_sources list, no work id, no lccn, a format tag from classify_format,
\* and, when imageLinks gives no cover (argument links_cover), the Open Library
\* cover looked up by ISBN if the volume has one (main.py 437-440)
GoogleItem(title, authors, isbn_13, isbn_10, links_cover, published_date, id) ==
    LET cover_id == IF Truthy(isbn_13) THEN isbn_13 ELSE isbn_10
        cover_url == IF Truthy(links_cover) THEN links_cover
                     ELSE IF Truthy(cover_id) THEN Tok("OL-isbn-cover")
                     ELSE None
    IN  SearchResultItem(title, None, authors, isbn_13, isbn_10, Tok("G-pub"),
                         published_date, Tok("4.5"), Tok("12"), <<sFiction>>,
                         Tok(id), None, cover_url, Tok("Unknown Format"),
                         Tok("G-desc"), <<GoogleBooks>>, <<>>)

\* what _ol_item_to_search_result returns (main.py 470-495)
OlItem(title, authors, isbn_13, isbn_10, cover_url, published_date, key) ==
    SearchResultItem(title, None, authors, isbn_13, isbn_10, Tok("OL-pub"),
                     published_date, None, None, <<sMagic>>,
                     None, Tok(key), cover_url, None,
                     None, <<OpenLibrary>>, <<>>)

\* what loc._normalize_loc_item returns (loc.py 181-193), the keys the merge reads
LocItem(title, names, lccn) ==
    [title |-> title,
     authors |-> [i \in DOMAIN names |-> [name |-> names[i]]],
     published_date |-> Tok("1999"),
     publisher |-> None,
     subjects |-> <<sHistory>>,
     description |-> <<>>,
     lccn |-> lccn]

GoogleItems ==
    { GoogleItem(sFoo, <<>>, Isbn13B, None, None, Tok("2020"), "g1"),
      GoogleItem(sBaz, <<AuthorItem(sAl, None)>>, Isbn13B, None, Tok("G-cover"), None, "g2"),
      GoogleItem(sFoo, <<AuthorItem(sAl, None)>>, None, Isbn10A, Tok("G-cover"), Tok("2021"), "g3"),
      GoogleItem(sFooPadded, <<AuthorItem(sAlPadded, None)>>, None, None, None, Tok("2019"), "g4"),
      GoogleItem(sFooBar, <<>>, None, None, None, None, "g5"),
      GoogleItem(sFooBarWide, <<>>, None, None, Tok("G-cover"), Tok("2020"), "g6") }

OlItems ==
    { OlItem(sFoo, <<AuthorItem(sBo, Tok("OL1A"))>>, Isbn13B, None, Tok("OL-cover"), Tok("2001"), "w1"),
      OlItem(sFooUpper, <<AuthorItem(sAlUpper, Tok("OL2A"))>>, None, None, Tok("OL-cover"), Tok("2002"), "w2"),
      OlItem(sFooBarLower, <<>>, None, None, None, Tok("2003"), "w3"),
      OlItem(sBaz, <<>>, Isbn13B, None, None, None, "w4"),
      OlItem(sFoo, <<AuthorItem(sAl, Tok("OL2A"))>>, Isbn13A, None, Tok("OL-cover"), None, "w5"),
      OlItem(sFooBarWide, <<AuthorItem(sBo, Tok("OL1A"))>>, None, Isbn10A, None, Tok("2004"), "w6") }

LocItems ==
    { LocItem(sFooLower, <<>>, <<>>),
      LocItem(sFooUpper, <<sAl>>, <<"2001016794">>),
      LocItem(sFooBar, <<>>, <<"99012345">>),
      LocItem(sFooBarWide, <<sBo>>, <<>>) }

Queries == { <<>>, sFooLower, sAl, sFooBarLower, <<"2","0","0","1","-","0","1","6","7","9","4">> }

\* all lists over S of length n
RECURSIVE ListsOfLen(_, _)
ListsOfLen(S, n) ==
    IF n = 0 THEN {<<>>}
    ELSE {Append(l, x) : l \in ListsOfLen(S, n - 1), x \in S}

---------------------------------------------------------------------------
(* The search request: search_hybrid, main.py 994-1058 *)

Idle == /\ query = <<>>
        /\ google_results = <<>>
        /\ ol_results = <<>>
        /\ loc_results = <<>>
        /\ heap = <<>>
        /\ heap0 = <<>>
        /\ merged_books = <<>>
        /\ idx = 0
        /\ clean_loc_results = <<>>
        /\ final_list = <<>>
        /\ tasks = <<>>
        /\ done = {}
        /\ results_tuple = <<>>

\* _is_lccn, main.py 988-990
_is_lccn(q) ==
    LET clean == StrStrip(Filter(q, Range(q) \ {"-"}))
    IN  StrIsDigit(clean) /\ 8 <= Len(clean) /\ Len(clean) <= 12

PhraseLongerThan == 5

\* the query gets the exact-phrase searches as well, main.py 1024
IsPhraseQuery(q) == " " \in Range(q) /\ Len(q) > PhraseLongerThan

\* the awaitables of the gather of search_hybrid, in the order of its
\* arguments (main.py 1017-1019, 1035-1037, 1050-1054)
SearchTasks(q) ==
    IF ~_is_lccn(q) /\ IsPhraseQuery(q)
    THEN <<"google_task", "google_exact", "ol_task", "ol_exact", "loc_task">>
    ELSE <<"google_task", "ol_task", "loc_task">>

\* a gather that returns as soon as one of its awaitables has completed
SomeTaskDone == done # {}

\* `await asyncio.gather(...)` returns when every awaitable has completed
AllTasksDone == done = Range(tasks)

\* search_hybrid up to its gather: the tasks are created, main.py 994-1054
SearchStart ==
    /\ req = "search"
    /\ pc = "start"
    /\ \E q \in Queries :
        /\ query' = q
        /\ tasks' = SearchTasks(q)
    /\ done' = {}
    /\ pc' = "gather"
    /\ UNCHANGED <<req, google_results, ol_results, loc_results, heap, heap0,
                   merged_books, idx, clean_loc_results, final_list, results_tuple>>
    /\ UNCHANGED lookupVars
    /\ UNCHANGED otherVars

\* one awaitable of the pending gather completes
TaskDone ==
    /\ \/ req = "search" /\ pc = "gather"
       \/ req = "lookup" /\ pc = "fetch"
    /\ \E t \in Range(tasks) \ done : done' = done \cup {t}
    /\ UNCHANGED <<req, pc, tasks, results_tuple>>
    /\ UNCHANGED searchVars
    /\ UNCHANGED lookupVars
    /\ UNCHANGED otherVars

MaxPhraseRecords == 2

\* the gather of search_hybrid returns and _merge_and_deduplicate_results is
\* entered with freshly mapped objects, main.py 1017-1057: ge and oe are the
\* results of the exact-phrase searches, gf and fo of the plain ones
SearchGather ==
    /\ req = "search"
    /\ pc = "gather"
    /\ AllTasksDone
    /\ \E nge \in 0..MaxRecords, ngf \in 0..MaxRecords, noe \in 0..MaxRecords,
          nfo \in 0..MaxRecords, nl \in 0..MaxRecords :
        /\ IF _is_lccn(query)
           THEN nge + ngf + noe + nfo = 0 /\ nl <= 1
           ELSE IF IsPhraseQuery(query)
           THEN nge + ngf + noe + nfo + nl <= MaxPhraseRecords
           ELSE nge + noe = 0 /\ ngf + nfo + nl <= MaxRecords
        /\ \E ge \in ListsOfLen(GoogleItems, nge), gf \in ListsOfLen(GoogleItems, ngf),
              oe \in ListsOfLen(OlItems, noe), fo \in ListsOfLen(OlItems, nfo),
              l \in ListsOfLen(LocItems, nl) :
            LET ids(from, n) == [i \in 1..n |-> from + i]
                exact_g == ids(0, nge)
                fuzzy_g == ids(nge, ngf)
                exact_o == ids(nge + ngf, noe)
                fuzzy_o == ids(nge + ngf + noe, nfo)
            IN  /\ heap' = ge \o gf \o oe \o fo
                /\ heap0' = heap'
                /\ results_tuple' =
                       IF Len(tasks) = 5 THEN <<fuzzy_g, exact_g, fuzzy_o, exact_o, l>>
                       ELSE <<fuzzy_g, fuzzy_o, l>>
                /\ google_results' = exact_g \o fuzzy_g
                /\ ol_results' = exact_o \o fuzzy_o
                /\ loc_results' = l
    /\ merged_books' = <<>>
    /\ idx' = 0
    /\ pc' = "google"
    /\ UNCHANGED <<req, query, clean_loc_results, final_list, tasks, done>>
    /\ UNCHANGED lookupVars
    /\ UNCHANGED otherVars

\* one iteration of `for item in google_results`, main.py 532-534
MergeGoogleItem ==
    /\ pc = "google"
    /\ idx < Len(google_results)
    /\ LET ref == google_results[idx + 1]
           key == IdentityKey(heap[ref])
       IN  merged_books' = IF Truthy(key) THEN DictSet(merged_books, key, ref)
                           ELSE merged_books
    /\ idx' = idx + 1
    /\ UNCHANGED <<req, pc, query, google_results, ol_results, loc_results, heap,
                   heap0, clean_loc_results, final_list>>
    /\ UNCHANGED lookupVars
    /\ UNCHANGED extraVars

GoogleLoopDone ==
    /\ pc = "google"
    /\ idx = Len(google_results)
    /\ pc' = "ol"
    /\ idx' = 0
    /\ UNCHANGED <<req, query, google_results, ol_results, loc_results, heap,
                   heap0, merged_books, clean_loc_results, final_list>>
    /\ UNCHANGED lookupVars
    /\ UNCHANGED extraVars

\* the body of `if key in merged_books` of the Open Library loop, main.py 540-544
MergeOlInto(existing, item) ==
    [existing EXCEPT
        !.open_library_work_id =
            IF ~Truthy(existing.open_library_work_id)
            THEN item.open_library_work_id ELSE @,
        !.authors =
            IF existing.authors = <<>> /\ item.authors # <<>>
            THEN item.authors ELSE @,
        !.data_sources =
            IF OpenLibrary \notin Range(existing.data_sources)
            THEN Append(@, OpenLibrary) ELSE @]

\* one iteration of `for item in ol_results`, main.py 536-546
MergeOlItem ==
    /\ pc = "ol"
    /\ idx < Len(ol_results)
    /\ LET ref == ol_results[idx + 1]
           item == heap[ref]
           key == IdentityKey(item)
       IN  IF ~Truthy(key)
           THEN UNCHANGED <<heap, merged_books>>
           ELSE IF key \in DictKeys(merged_books)
           THEN LET target == DictGet(merged_books, key)
                IN  /\ heap' = [heap EXCEPT ![target] = MergeOlInto(heap[target], item)]
                    /\ UNCHANGED merged_books
           ELSE /\ merged_books' = DictSet(merged_books, key, ref)
                /\ UNCHANGED heap
    /\ idx' = idx + 1
    /\ UNCHANGED <<req, pc, query, google_results, ol_results, loc_results,
                   heap0, clean_loc_results, final_list>>
    /\ UNCHANGED lookupVars
    /\ UNCHANGED extraVars

\* the Open Library loop ends and clean_loc_results is built, main.py 548
MapLocResults ==
    /\ pc = "ol"
    /\ idx = Len(ol_results)
    /\ heap' = heap \o [i \in DOMAIN loc_results |->
                            _loc_item_to_search_result(loc_results[i])]
    /\ clean_loc_results' = [i \in DOMAIN loc_results |-> Len(heap) + i]
    /\ pc' = "loc"
    /\ idx' = 0
    /\ UNCHANGED <<req, query, google_results, ol_results, loc_results, heap0,
                   merged_books, final_list>>
    /\ UNCHANGED lookupVars
    /\ UNCHANGED extraVars

\* the Library of Congress branch with the attribution left out
MergeLocIntoUnattributed(existing, item) ==
    [existing EXCEPT
        !.format_tag = Tok("Primary Source"),
        !.lccn =
            IF Truthy(item.lccn) /\ ~Truthy(existing.lccn) THEN item.lccn ELSE @]

\* the body of `if key in merged_books` of the Library of Congress loop,
\* main.py 552-557
MergeLocInto(existing, item) ==
    [existing EXCEPT
        !.data_sources =
            IF LibraryOfCongress \notin Range(existing.data_sources)
            THEN Append(@, LibraryOfCongress) ELSE @,
        !.format_tag = Tok("Primary Source"),
        !.lccn =
            IF Truthy(item.lccn) /\ ~Truthy(existing.lccn) THEN item.lccn ELSE @]

\* one iteration of `for item in clean_loc_results`, main.py 549-559
MergeLocItem ==
    /\ pc = "loc"
    /\ idx < Len(clean_loc_results)
    /\ LET ref == clean_loc_results[idx + 1]
           item == heap[ref]
           key == get_fallback_key(item)
       IN  IF key \in DictKeys(merged_books)
           THEN LET target == DictGet(merged_books, key)
                IN  /\ heap' = [heap EXCEPT ![target] = MergeLocInto(heap[target], item)]
                    /\ UNCHANGED merged_books
           ELSE /\ merged_books' = DictSet(merged_books, key, ref)
                /\ UNCHANGED heap
    /\ idx' = idx + 1
    /\ UNCHANGED <<req, pc, query, google_results, ol_results, loc_results,
                   heap0, clean_loc_results, final_list>>
    /\ UNCHANGED lookupVars
    /\ UNCHANGED extraVars

\* the Library of Congress loop ends; the values are sorted and returned,
\* main.py 597-599
SortAndReturn ==
    /\ pc = "loc"
    /\ idx = Len(clean_loc_results)
    /\ final_list' = SortByScore(DictValues(merged_books), heap, query)
    /\ pc' = "done"
    /\ UNCHANGED <<req, query, google_results, ol_results, loc_results, heap,
                   heap0, merged_books, idx, clean_loc_results>>
    /\ UNCHANGED lookupVars
    /\ UNCHANGED extraVars

---------------------------------------------------------------------------
(* Text helpers of the direct lookup *)

\* the characters of the model in code point order
AsciiSeq == <<" ", "&", "-", "/">> \o DigitSeq \o <<"<", ">">> \o UpperSeq
            \o LowerSeq \o <<"{", "|">>

Ord(c) == CHOOSE i \in DOMAIN AsciiSeq : AsciiSeq[i] = c

\* a < b for Python strings
StrLess(a, b) ==
    \E i \in 1..(Len(b)) :
        /\ \A j \in 1..(i - 1) : j <= Len(a) /\ a[j] = b[j]
        /\ (i > Len(a) \/ (i <= Len(a) /\ Ord(a[i]) < Ord(b[i])))
        /\ i - 1 <= Len(a)

\* sorted(list(S)) for a set S of strings
SortedStrings(S) ==
    LET rank(x) == Cardinality({y \in S : StrLess(y, x)}) + 1
    IN  [p \in 1..Cardinality(S) |-> CHOOSE x \in S : rank(x) = p]

RECURSIVE Join(_, _)
\* sep.join(list)
Join(sep, list) ==
    IF list = <<>> THEN <<>>
    ELSE IF Len(list) = 1 THEN list[1]
    ELSE list[1] \o sep \o Join(sep, Tail(list))

RECURSIVE ToInt(_)
\* int(s) for a string of digits
ToInt(s) == IF s = <<>> THEN 0
            ELSE 10 * ToInt(SubSeq(s, 1, Len(s) - 1)) + DigitVal(s[Len(s)])

RECURSIVE StripTags(_)
\* re.sub(r'<[^>]+>', ' ', text)
StripTags(s) ==
    IF s = <<>> THEN <<>>
    ELSE IF Head(s) = "<" /\ \E j \in 3..Len(s) : s[j] = ">" /\ s[2] # ">"
         THEN LET close == CHOOSE j \in 3..Len(s) :
                               s[j] = ">" /\ \A k \in 3..(j - 1) : s[k] # ">"
              IN  <<" ">> \o StripTags(SubSeq(s, close + 1, Len(s)))
         ELSE <<Head(s)>> \o StripTags(Tail(s))

RECURSIVE ReplaceAll(_, _, _)
\* s.replace(old, new), old not empty
ReplaceAll(s, old, new) ==
    IF Len(s) < Len(old) THEN s
    ELSE IF SubSeq(s, 1, Len(old)) = old
         THEN new \o ReplaceAll(SubSeq(s, Len(old) + 1, Len(s)), old, new)
         ELSE <<Head(s)>> \o ReplaceAll(Tail(s), old, new)

RECURSIVE CollapseSpaces(_)
\* re.sub(r'\s+', ' ', s)
CollapseSpaces(s) ==
    IF s = <<>> THEN <<>>
    ELSE IF IsSpace(Head(s))
         THEN IF Len(s) >= 2 /\ IsSpace(s[2]) THEN CollapseSpaces(Tail(s))
              ELSE <<" ">> \o CollapseSpaces(Tail(s))
         ELSE <<Head(s)>> \o CollapseSpaces(Tail(s))

\* clean_html_text, main.py 289-293
clean_html_text(text) ==
    IF ~Truthy(text) THEN None
    ELSE LET clean == StripTags(text)
             unescaped == ReplaceAll(ReplaceAll(ReplaceAll(clean,
                              <<"&","q","u","o","t",";">>, <<"\"">>), <<"&","a","p","o","s",";">>, <<"'">>),
                              <<"&","a","m","p",";">>, <<"&">>)
         IN  StrStrip(CollapseSpaces(unescaped))

\* classify_format, main.py 314-319; a page count is a string of digits or None
classify_format(page_count, is_ebook) ==
    IF ~Truthy(page_count) \/ ToInt(page_count) = 0 THEN Tok("Unknown Format")
    ELSE IF ToInt(page_count) < 50 THEN Tok("Short Story")
    ELSE IF ToInt(page_count) < 150 THEN Tok("Novella")
    ELSE IF is_ebook THEN Tok("eBook")
    ELSE Tok("Novel")

ContentTriggers == { <<"e","r","o","t","i","c","a">>, <<"e","x","p","l","i","c","i","t">>, <<"m","a","t","u","r","e"," ","c","o","n","t","e","n","t">>,
                     <<"d","a","r","k"," ","r","o","m","a","n","c","e">>, <<"s","e","x","u","a","l"," ","v","i","o","l","e","n","c","e">> }

\* check_content_safety, main.py 321-326
check_content_safety(description, categories) ==
    LET text == StrLower((IF Truthy(description) THEN description ELSE <<>>)
                         \o <<" ">> \o Join(<<" ">>, categories))
    IN  IF \E t \in ContentTriggers : StrContains(text, t)
        THEN Tok("Mature Content") ELSE None

\* GENRE_KEYWORDS, main.py 329-337
GENRE_KEYWORDS ==
    { <<<<"v","a","m","p","i","r","e">>, <<"P","a","r","a","n","o","r","m","a","l">>>>, <<<<"w","e","r","e","w","o","l","f">>, <<"P","a","r","a","n","o","r","m","a","l">>>>,
      <<<<"w","i","t","c","h">>, <<"F","a","n","t","a","s","y">>>>, <<<<"s","p","a","c","e">>, <<"S","c","i","-","F","i">>>>,
      <<<<"a","l","i","e","n">>, <<"S","c","i","-","F","i">>>>, <<<<"r","o","b","o","t">>, <<"S","c","i","-","F","i">>>>,
      <<<<"d","e","t","e","c","t","i","v","e">>, <<"M","y","s","t","e","r","y">>>>, <<<<"m","u","r","d","e","r">>, <<"M","y","s","t","e","r","y">>>>,
      <<<<"c","r","i","m","e">>, <<"M","y","s","t","e","r","y">>>>, <<<<"p","o","l","i","c","e">>, <<"M","y","s","t","e","r","y">>>>,
      <<<<"s","p","y">>, <<"T","h","r","i","l","l","e","r">>>>, <<<<"e","s","p","i","o","n","a","g","e">>, <<"T","h","r","i","l","l","e","r">>>>,
      <<<<"a","g","e","n","t">>, <<"T","h","r","i","l","l","e","r">>>>, <<<<"d","r","a","g","o","n">>, <<"F","a","n","t","a","s","y">>>>,
      <<<<"m","a","g","i","c">>, <<"F","a","n","t","a","s","y">>>>, <<<<"w","i","z","a","r","d">>, <<"F","a","n","t","a","s","y">>>>,
      <<<<"k","i","n","g","d","o","m">>, <<"F","a","n","t","a","s","y">>>>, <<<<"m","a","r","r","i","a","g","e">>, <<"R","o","m","a","n","c","e">>>>,
      <<<<"k","i","s","s">>, <<"R","o","m","a","n","c","e">>>>, <<<<"c","o","m","p","u","t","e","r">>, <<"T","e","c","h","n","o","l","o","g","y">>>>,
      <<<<"a","i">>, <<"T","e","c","h","n","o","l","o","g","y">>>> }

\* heuristic_tagging, main.py 328-343
heuristic_tagging(text, existing_tags) ==
    LET lower_text == StrLower(text)
        inferred_tags == Range(existing_tags) \cup
            {kt[2] : kt \in {p \in GENRE_KEYWORDS : StrContains(lower_text, p[1])}}
    IN  SortedStrings(inferred_tags)

\* a raw category: a str, or a dict that may have a name
RawStr(s) == [kind |-> "str", value |-> s]
RawDict(d) == [kind |-> "dict", value |-> d]

RECURSIVE SplitCategory(_, _)
\* re.split(r'[\/]+|--', cat_str); cur is the part being read
SplitCategory(s, cur) ==
    IF s = <<>> THEN <<cur>>
    ELSE IF Head(s) = "/"
         THEN LET rest == CHOOSE k \in 1..(Len(s) + 1) :
                              /\ \A j \in 1..(k - 1) : s[j] = "/"
                              /\ (k = Len(s) + 1 \/ s[k] # "/")
              IN  <<cur>> \o SplitCategory(SubSeq(s, rest, Len(s)), <<>>)
    ELSE IF Len(s) >= 2 /\ s[1] = "-" /\ s[2] = "-"
         THEN <<cur>> \o SplitCategory(SubSeq(s, 3, Len(s)), <<>>)
    ELSE SplitCategory(Tail(s), Append(cur, Head(s)))

StopWords == { <<"g","e","n","e","r","a","l">>, <<"e","l","e","c","t","r","o","n","i","c"," ","b","o","o","k","s">>, <<"b","o","o","k","s">>,
               <<"j","u","v","e","n","i","l","e"," ","f","i","c","t","i","o","n">>, <<"y","o","u","n","g"," ","a","d","u","l","t"," ","f","i","c","t","i","o","n">> }

\* a normalizer that trims the category before it is split, and not its parts
CategoriesTrimmedBeforeSplit(raw_categories) ==
    LET cat_str(cat) == IF cat.kind = "dict" THEN Get(cat.value, "name", <<>>)
                        ELSE cat.value
        parts(cat) == IF cat_str(cat) = <<>> THEN {}
                      ELSE Range(SplitCategory(StrStrip(cat_str(cat)), <<>>))
        unique_tags == {clean \in UNION {parts(raw_categories[i]) :
                                            i \in DOMAIN raw_categories} :
                            clean # <<>> /\ StrLower(clean) \notin StopWords}
    IN  SortedStrings(unique_tags)

\* _process_rich_categories, main.py 345-364
_process_rich_categories(raw_categories) ==
    LET cat_str(cat) == IF cat.kind = "dict" THEN Get(cat.value, "name", <<>>)
                        ELSE cat.value
        parts(cat) == IF cat_str(cat) = <<>> THEN {}
                      ELSE {StrStrip(p) : p \in Range(SplitCategory(cat_str(cat), <<>>))}
        unique_tags == {clean \in UNION {parts(raw_categories[i]) :
                                            i \in DOMAIN raw_categories} :
                            clean # <<>> /\ StrLower(clean) \notin StopWords}
    IN  SortedStrings(unique_tags)

---------------------------------------------------------------------------
(* The direct lookup: get_book_by_isbn and _merge_loc_data, main.py 779-985 *)

DictTruthy(d) == DOMAIN d # {}

\* url.split("/")[-1]
LastSegment(url) ==
    LET slashes == {i \in DOMAIN url : url[i] = "/"}
    IN  IF slashes = {} THEN url
        ELSE SubSeq(url, (CHOOSE i \in slashes : \A j \in slashes : j <= i) + 1,
                    Len(url))

\* The fields of MergedBook (main.py 164-190) that the merge decides; the
\* cover link objects, dimensions, sale and access info, series and
\* related_isbns are copied from one source or derived from the title alone.
MergedBook(title, subtitle, authors, isbn_13, isbn_10, description, publisher, published_date, page_count, average_rating, ratings_count, open_library_id, subjects, format_tag, content_flag, data_sources) ==
    [title |-> title, subtitle |-> subtitle, authors |-> authors,
     isbn_13 |-> isbn_13, isbn_10 |-> isbn_10, description |-> description,
     publisher |-> publisher, published_date |-> published_date,
     page_count |-> page_count, average_rating |-> average_rating,
     ratings_count |-> ratings_count, open_library_id |-> open_library_id,
     subjects |-> subjects, format_tag |-> format_tag,
     content_flag |-> content_flag, data_sources |-> data_sources,
     lccn |-> <<>>]

\* _merge_loc_data, main.py 779-806
_merge_loc_data(book, loc) ==
    IF ~DictTruthy(loc) THEN book
    ELSE [book EXCEPT
            !.title = IF book.title = <<"T","i","t","l","e"," ","N","o","t"," ","F","o","u","n","d">> /\ Truthy(Get(loc, "title", None))
                      THEN loc["title"] ELSE @,
            !.description = IF ~Truthy(book.description)
                               /\ Truthy(Get(loc, "description", None))
                            THEN loc["description"] ELSE @,
            !.published_date = IF Truthy(Get(loc, "published_date", None))
                               THEN loc["published_date"] ELSE @,
            !.subjects = IF Get(loc, "subjects", <<>>) # <<>>
                         THEN SortedStrings(Range(book.subjects) \cup Range(loc["subjects"]))
                         ELSE @,
            !.publisher = IF ~Truthy(book.publisher) /\ Truthy(Get(loc, "publisher", None))
                          THEN loc["publisher"] ELSE @,
            !.lccn = IF Get(loc, "lccn", <<>>) # <<>> THEN loc["lccn"] ELSE @,
            !.data_sources = IF LibraryOfCongress \notin Range(book.data_sources)
                             THEN Append(@, LibraryOfCongress) ELSE @]

\* is_lccn, main.py 813
IsLccnMode(id) == Len(id) < 13 /\ StrIsDigit(id)

\* the description chain, main.py 835-841 and 863-866; an Open Library
\* description is taken in its str form
LookupDescription(g_info, ol, loc, work) ==
    LET d1 == clean_html_text(Get(g_info, "description", None))
        d2 == IF Truthy(d1) THEN d1
              ELSE LET d_ol == clean_html_text(Get(ol, "description", None))
                   IN  IF ~Truthy(d_ol) /\ Truthy(Get(loc, "description", None))
                       THEN clean_html_text(loc["description"]) ELSE d_ol
    IN  IF ~Truthy(d2) /\ DictTruthy(work)
        THEN clean_html_text(Get(work, "description", None))
        ELSE d2

SubjectBackfillBelow == 3

\* combined_subjects, main.py 868-882
LookupSubjects(g_info, ol, loc, work, description) ==
    LET clean_g_categories == _process_rich_categories(Get(g_info, "categories", <<>>))
        clean_ol_subjects == _process_rich_categories(Get(ol, "subjects", <<>>))
        work_tags == IF DictTruthy(work)
                     THEN Get(work, "subjects", <<>>) \o Get(work, "subject_places", <<>>)
                            \o Get(work, "subject_times", <<>>)
                     ELSE <<>>
        clean_work_tags == _process_rich_categories(work_tags)
        combined_subjects == SortedStrings(Range(clean_g_categories)
                                \cup Range(clean_ol_subjects) \cup Range(clean_work_tags))
        has_loc_subjects == DictTruthy(loc) /\ Get(loc, "subjects", <<>>) # <<>>
    IN  IF ~has_loc_subjects /\ Len(combined_subjects) < SubjectBackfillBelow
           /\ Truthy(description)
        THEN SortedStrings(Range(combined_subjects) \cup
                Range(heuristic_tagging(description \o <<" ">> \o Get(g_info, "title", <<>>),
                                        combined_subjects)))
        ELSE combined_subjects

\* final_authors, main.py 892-908; the biography attached to an Open Library
\* author is not modelled
LookupAuthors(g_info, ol, loc) ==
    LET ol_authors_list == Get(ol, "authors", <<>>)
        from_ol == [i \in DOMAIN ol_authors_list |->
                      LET a == ol_authors_list[i]
                      IN  AuthorItem(Get(a, "name", Tok("Unknown")),
                                     IF "url" \in DOMAIN a THEN LastSegment(a["url"])
                                     ELSE Get(a, "key", None))]
        g_names == Get(g_info, "authors", <<>>)
        from_google == [i \in DOMAIN g_names |-> AuthorItem(g_names[i], None)]
        loc_authors == Get(loc, "authors", <<>>)
        from_loc == [i \in DOMAIN loc_authors |->
                       AuthorItem(Get(loc_authors[i], "name", Tok("Unknown")), None)]
    IN  IF from_ol # <<>> THEN from_ol
        ELSE IF from_google # <<>> THEN from_google
        ELSE from_loc

\* isbn_10, main.py 911-916
LookupIsbn10(g_info) ==
    LET ids == Get(g_info, "industryIdentifiers", <<>>)
        tens == {i \in DOMAIN ids : ids[i].type = "ISBN_10"}
    IN  IF tens = {} THEN None
        ELSE ids[CHOOSE i \in tens : \A j \in tens : i <= j].identifier

\* sources, main.py 950-953
\* the sources listed with Open Library ahead of Google
LookupSourcesOpenLibraryFirst(gv, ol, loc) ==
    (IF DictTruthy(ol) THEN <<OpenLibrary>> ELSE <<>>)
    \o (IF DictTruthy(gv) THEN <<GoogleBooks>> ELSE <<>>)
    \o (IF DictTruthy(loc) THEN <<LibraryOfCongress>> ELSE <<>>)

LookupSources(gv, ol, loc) ==
    (IF DictTruthy(gv) THEN <<GoogleBooks>> ELSE <<>>)
    \o (IF DictTruthy(ol) THEN <<OpenLibrary>> ELSE <<>>)
    \o (IF DictTruthy(loc) THEN <<LibraryOfCongress>> ELSE <<>>)

\* the MergedBook constructed at main.py 956-983
BuildMergedBook(id, gv, ol, loc, work) ==
    LET g_info == Get(gv, "volumeInfo", EmptyDict)
        description == LookupDescription(g_info, ol, loc, work)
        combined_subjects == LookupSubjects(g_info, ol, loc, work, description)
        is_ebook == Get(Get(gv, "saleInfo", EmptyDict), "isEbook", FALSE)
    IN  MergedBook(
            Get(g_info, "title", Get(ol, "title", <<"T","i","t","l","e"," ","N","o","t"," ","F","o","u","n","d">>)),
            Get(g_info, "subtitle", None),
            LookupAuthors(g_info, ol, loc),
            id,
            LookupIsbn10(g_info),
            description,
            Get(g_info, "publisher",
                Get(Get(ol, "publishers", <<EmptyDict>>)[1], "name", None)),
            Get(g_info, "publishedDate", Get(ol, "publish_date", None)),
            Get(g_info, "pageCount", Get(ol, "number_of_pages", None)),
            Get(g_info, "averageRating", None),
            Get(g_info, "ratingsCount", None),
            Get(ol, "key", None),
            combined_subjects,
            classify_format(Get(g_info, "pageCount", None), is_ebook),
            check_content_safety(description, combined_subjects),
            LookupSources(gv, ol, loc))

\* whether the work details are fetched, main.py 845-850
HasWorkKey(ol) ==
    LET ol_works == Get(ol, "works", <<>>)
    IN  ol_works # <<>> /\ "key" \in DOMAIN ol_works[1]

---------------------------------------------------------------------------
(* The values the sources may return to a lookup *)

\* the longest run of digits offered as an identifier
MaxIdLen == 15

LongDigits == <<"1","2","3","4","5","6","7","8","9","0","1","2","3","4","5","6","7","8","9","0">>
Isbn13Prefix == <<"9","7","8","0","3","0","6","4","0","6","1","5">>
Isbn10Prefixes ==
    { <<"0","3","0","6","4","0","6","1",d>> : d \in Range(DigitSeq) }
    \cup { <<"0",d,"0","4","4","2","9","5","7">> : d \in Range(DigitSeq) }

\* " 978-..." : blanks around and a hyphen after the third character
Decorate(s) == <<" ">> \o SubSeq(s, 1, 3) \o <<"-">> \o SubSeq(s, 4, Len(s)) \o <<" ">>

PlainRawIsbns ==
    {Isbn13Prefix \o <<d>> : d \in Range(DigitSeq)}
    \cup {p \o <<c>> : p \in Isbn10Prefixes, c \in Range(DigitSeq) \cup {"X", "x", "a"}}
    \cup {SubSeq(LongDigits, 1, n) : n \in 0..MaxIdLen}
    \cup { <<"1","2","3","4","5","6","7","8","a">>, <<"a","b","c","d","e","f","g","h">> }

RawIsbns == PlainRawIsbns \cup {Decorate(s) : s \in {r \in PlainRawIsbns : Len(r) >= 3}}

GoogleVolumes ==
    { EmptyDict,
      [id |-> Tok("gv1"),
       volumeInfo |->
         [title |-> <<"F","o","o">>, subtitle |-> <<"A"," ","T","a","l","e">>, authors |-> << <<"A","l">> >>,
          publisher |-> <<"G"," ","P","r","e","s","s">>, publishedDate |-> <<"2","0","2","0","-","0","5","-","0","1">>,
          description |-> <<"<","b",">","A"," ","d","r","a","g","o","n","<","/","b",">"," "," ","t","a","l","e">>, pageCount |-> <<"3","2","0">>,
          averageRating |-> <<"4">>, ratingsCount |-> <<"1","2">>,
          categories |-> << RawStr(<<"F","i","c","t","i","o","n"," ","/"," ","F","a","n","t","a","s","y">>) >>,
          industryIdentifiers |->
            << [type |-> "ISBN_13", identifier |-> Isbn13A],
               [type |-> "ISBN_10", identifier |-> Isbn10A] >>],
       saleInfo |-> [isEbook |-> TRUE]],
      [id |-> Tok("gv2"),
       volumeInfo |-> [title |-> <<"F","o","o">>, categories |-> << RawStr(<<"F","a","n","t","a","s","y">>) >>]],
      [id |-> Tok("gv3"),
       volumeInfo |-> [authors |-> << <<"A","l">> >>, pageCount |-> <<"0">>]],
      [id |-> Tok("gv4"),
       volumeInfo |-> [title |-> <<"F","o","o">>, description |-> <<"A"," ","s","p","y"," ","s","t","o","r","y">>,
                       categories |-> << RawStr(<<"H","i","s","t","o","r","y"," ","/"," ","T","r","a","v","e","l">>) >>]] }

OlBooks ==
    { EmptyDict,
      [title |-> <<"F","o","o"," ","E","d">>, key |-> Tok("/books/OL1M"),
       authors |-> << [name |-> <<"B","o">>, url |-> <<"o","l","/","a","u","t","h","o","r","s","/","O","L","1","A">>] >>,
       publishers |-> << [name |-> <<"O","L"," ","P","r","e","s","s">>] >>,
       publish_date |-> <<"2","0","0","1">>, number_of_pages |-> <<"1","0","0">>,
       description |-> <<"A","n"," ","o","p","e","n"," ","t","a","l","e">>,
       subjects |-> << RawDict([name |-> <<"f","a","n","t","a","s","y">>]), RawDict([name |-> <<"M","a","g","i","c"," ","-","-"," ","B","o","o","k","s">>]) >>,
       works |-> << [key |-> Tok("/works/OL1W")] >>],
      [title |-> <<"F","o","o">>, subjects |-> << RawDict([name |-> <<"F","i","c","t","i","o","n">>]) >>] }

LocDatas ==
    { EmptyDict,
      [title |-> <<"F","o","o"," ","P","a","p","e","r","s">>, authors |-> << [name |-> <<"C","y">>] >>,
       published_date |-> <<"1","9","9","9">>, publisher |-> <<"L","o","C"," ","P","r","e","s","s">>,
       subjects |-> << <<"H","i","s","t","o","r","y">>, <<"f","a","n","t","a","s","y">> >>,
       description |-> <<"A","n"," ","a","r","c","h","i","v","e">>, lccn |-> << "2001016794" >>],
      [title |-> <<"U","n","t","i","t","l","e","d"," ","D","o","c","u","m","e","n","t">>, authors |-> <<>>,
       published_date |-> None, publisher |-> None, subjects |-> <<>>,
       description |-> <<>>, lccn |-> <<>>] }

WorkDatas ==
    { EmptyDict,
      [description |-> <<"A"," ","s","p","y"," ","s","t","o","r","y">>,
       subjects |-> << RawStr(<<"D","r","a","g","o","n","s">>), RawStr(<<"F","A","N","T","A","S","Y">>) >>] }

---------------------------------------------------------------------------
(* The lookup request *)

LookupIdle == /\ raw_isbn = <<>>
              /\ isbn = None
              /\ http_error = 0
              /\ google_volume = EmptyDict
              /\ open_library_book = EmptyDict
              /\ loc_data = EmptyDict
              /\ work_data = EmptyDict
              /\ pre_loc_book = EmptyDict
              /\ merged_book = EmptyDict

\* the dependency validate_and_clean_isbn runs on the path parameter, main.py 811
\* the awaitables of the first gather of get_book_by_isbn, in the order of
\* its arguments (main.py 818-822, 825-829); in LCCN mode the first two are
\* asyncio.sleep(0, result={})
LookupTasks == <<"google_volume", "open_library_book", "loc_data">>

LookupValidate ==
    /\ req = "lookup"
    /\ pc = "start"
    /\ \E raw \in RawIsbns :
        /\ raw_isbn' = raw
        /\ isbn' = validate_and_clean_isbn(raw)
    /\ IF isbn' = None
       THEN http_error' = 400 /\ pc' = "done" /\ tasks' = <<>>
       ELSE http_error' = 0 /\ pc' = "fetch" /\ tasks' = LookupTasks
    /\ done' = {}
    /\ UNCHANGED <<req, google_volume, open_library_book, loc_data, work_data,
                   pre_loc_book, merged_book, results_tuple>>
    /\ UNCHANGED searchVars
    /\ UNCHANGED otherVars

\* the first gather, main.py 813-832
LookupGather ==
    /\ req = "lookup"
    /\ pc = "fetch"
    /\ AllTasksDone
    /\ \E gv \in GoogleVolumes, ol \in OlBooks, loc \in LocDatas :
        /\ IsLccnMode(isbn) => gv = EmptyDict /\ ol = EmptyDict
        /\ google_volume' = gv
        /\ open_library_book' = ol
        /\ loc_data' = loc
        /\ results_tuple' = <<gv, ol, loc>>
    /\ IF ~DictTruthy(google_volume') /\ ~DictTruthy(open_library_book')
          /\ ~DictTruthy(loc_data')
       THEN http_error' = 404 /\ pc' = "done"
       ELSE http_error' = 0 /\ pc' = "build"
    /\ UNCHANGED <<req, raw_isbn, isbn, work_data, pre_loc_book, merged_book,
                   tasks, done>>
    /\ UNCHANGED searchVars
    /\ UNCHANGED otherVars

\* the second gather and the rest of the handler, main.py 834-985
LookupBuild ==
    /\ pc = "build"
    /\ \E work \in WorkDatas :
        /\ ~HasWorkKey(open_library_book) => work = EmptyDict
        /\ work_data' = work
    /\ pre_loc_book' = BuildMergedBook(isbn, google_volume, open_library_book,
                                       loc_data, work_data')
    /\ merged_book' = _merge_loc_data(pre_loc_book', loc_data)
    /\ pc' = "done"
    /\ UNCHANGED <<req, raw_isbn, isbn, http_error, google_volume,
                   open_library_book, loc_data>>
    /\ UNCHANGED searchVars
    /\ UNCHANGED extraVars

---------------------------------------------------------------------------
(* score_book applied to one record and one query, main.py 561-595 *)

sFooBarBaz == <<"F","o","o"," ","B","a","r"," ","B","a","z">>
sAlfredBo == <<"A","l","f","r","e","d"," ","B","o">>

\* the records score_book is applied to: the fields it reads take every
\* combination of present and absent, the others are as the Google mapper sets them
ScoreBooks ==
    { SearchResultItem(t, None, a, i, None, Tok("G-pub"), d, r, r, <<sFiction>>,
                       Tok("g"), None, c, Tok("Unknown Format"), Tok("G-desc"),
                       s, <<>>) :
        t \in {sFoo, sFooBar, sFooBarBaz, <<"?">>},
        a \in { <<>>, <<AuthorItem(sAl, None)>>, <<AuthorItem(sAlfredBo, None)>>,
                <<AuthorItem(sAl, None), AuthorItem(sAlfredBo, None)>> },
        i \in {None, Isbn13A},
        d \in {None, Tok("2020")},
        r \in {None, Tok("4.5")},
        c \in {None, Tok("G-cover")},
        s \in { <<GoogleBooks>>, <<GoogleBooks, LibraryOfCongress>> } }

ScoreQueries == { <<>>, sFooLower, sAl, <<"F","o","o"," ","B","a","r","!">>, <<"a","l","f","r","e","d">>, <<"!","!">> }

ScoreIdle == /\ scored_book = EmptyDict
             /\ scored_query = <<>>
             /\ score = 0

\* score_book(book) with the query of the request
ScoreBook ==
    /\ req = "score"
    /\ pc = "start"
    /\ \E b \in ScoreBooks, q \in ScoreQueries :
        /\ scored_book' = b
        /\ scored_query' = q
        /\ score' = score_book(b, q)
    /\ pc' = "done"
    /\ UNCHANGED <<req, gate_book, now, is_valid>>
    /\ UNCHANGED releaseVars
    /\ UNCHANGED searchVars
    /\ UNCHANGED lookupVars
    /\ UNCHANGED gatherVars
    /\ UNCHANGED mapVars

---------------------------------------------------------------------------
(* The release gate _is_valid_release, main.py 1061-1103 *)

\* TITLE_BLACKLIST, main.py 60-70
TITLE_BLACKLIST ==
    { <<"c","l","o","u","d"," ","m","o","u","n","t","a","i","n">>, <<"t","h","e"," ","g","r","e","a","t"," ","g","a","t","s","b","y">>, <<"1","9","8","4">>, <<"a","n","i","m","a","l"," ","f","a","r","m">>,
      <<"p","r","i","d","e"," ","a","n","d"," ","p","r","e","j","u","d","i","c","e">>, <<"t","h","e"," ","h","o","b","b","i","t">>, <<"l","i","t","t","l","e"," ","w","o","m","e","n">>,
      <<"m","e"," ","b","e","f","o","r","e"," ","y","o","u">>, <<"t","h","e"," ","d","e","a","d"," ","z","o","n","e">> }

\* reprint_triggers, main.py 1068
reprint_triggers ==
    { <<"a","n","n","i","v","e","r","s","a","r","y"," ","e","d","i","t","i","o","n">>, <<"c","l","a","s","s","i","c">>, <<"r","e","i","s","s","u","e">>, <<"r","e","p","r","i","n","t">> }

MaxTitleLen == 150
PastWindowDays == 365
FutureWindowDays == 90

IsLeap(y) == (y % 4 = 0 /\ y % 100 # 0) \/ y % 400 = 0

DaysInMonth(y, m) ==
    IF m = 2 THEN (IF IsLeap(y) THEN 29 ELSE 28)
    ELSE IF m \in {4, 6, 9, 11} THEN 30 ELSE 31

RECURSIVE DaysBeforeMonth(_, _)
DaysBeforeMonth(y, m) ==
    IF m = 1 THEN 0 ELSE DaysBeforeMonth(y, m - 1) + DaysInMonth(y, m - 1)

\* date(y, m, d).toordinal()
DayNumber(y, m, d) ==
    365 * (y - 1) + ((y - 1) \div 4) - ((y - 1) \div 100) + ((y - 1) \div 400)
        + DaysBeforeMonth(y, m) + d

\* a datetime as a count of half days: midnight of a day, or some time later
\* in that day
Instant(dt) == 2 * DayNumber(dt.year, dt.month, dt.day) + (IF dt.later THEN 1 ELSE 0)

\* re.search(r"(\d{4})", s): the start of the leftmost run of four digits, or 0
YearMatch(s) ==
    LET at == {i \in 1..(Len(s) - 3) : \A j \in 0..3 : IsDigitChar(s[i + j])}
    IN  IF at = {} THEN 0 ELSE CHOOSE i \in at : \A j \in at : i <= j

\* datetime.strptime(s, "%Y-%m-%d"): <<year, month, day>>, or <<>> when it
\* raises ValueError
Strptime(s) ==
    LET dash == {i \in DOMAIN s : s[i] = "-"}
    IN  IF Cardinality(dash) # 2 THEN <<>>
        ELSE LET i1 == CHOOSE i \in dash : \A j \in dash : i <= j
                 i2 == CHOOSE i \in dash : \A j \in dash : j <= i
                 ys == SubSeq(s, 1, i1 - 1)
                 ms == SubSeq(s, i1 + 1, i2 - 1)
                 ds0 == SubSeq(s, i2 + 1, Len(s))
                 ds == IF Len(ds0) = 2 /\ ds0[1] = " " THEN <<ds0[2]>> ELSE ds0
             IN  IF /\ Len(ys) = 4 /\ StrIsDigit(ys)
                    /\ Len(ms) \in {1, 2} /\ StrIsDigit(ms)
                    /\ Len(ds) \in {1, 2} /\ StrIsDigit(ds)
                    /\ ToInt(ys) >= 1
                    /\ ToInt(ms) \in 1..12
                    /\ ToInt(ds) >= 1
                    /\ ToInt(ds) <= DaysInMonth(ToInt(ys), ToInt(ms))
                 THEN <<ToInt(ys), ToInt(ms), ToInt(ds)>>
                 ELSE <<>>

\* a date test that looks at the year only
YearOnlyDateTest(published_date, n) ==
    LET match == YearMatch(published_date)
        year == ToInt(SubSeq(published_date, match, match + 3))
    IN  match # 0 /\ year >= n.year - 1 /\ year <= n.year + 1

\* the date part of _is_valid_release, main.py 1073-1101
ReleaseDateOk(published_date, n) ==
    LET cutoff_past == Instant(n) - 2 * PastWindowDays
        cutoff_future == Instant(n) + 2 * FutureWindowDays
        match == YearMatch(published_date)
        year == ToInt(SubSeq(published_date, match, match + 3))
        parsed == Strptime(Prefix(published_date, 10))
        pub_dt == 2 * DayNumber(parsed[1], parsed[2], parsed[3])
    IN  IF match = 0 THEN FALSE
        ELSE IF year < n.year - 1 THEN FALSE
        ELSE IF year > n.year + 1 THEN FALSE
        ELSE IF parsed # <<>> /\ (pub_dt < cutoff_past \/ pub_dt > cutoff_future)
             THEN FALSE
        ELSE TRUE

\* a gate that has every test of _is_valid_release but the one on the cover
GateWithoutCoverTest(b, n) ==
    LET lower_title == StrLower(b.title)
    IN  IF ~Truthy(b.isbn_13) /\ ~Truthy(b.isbn_10) THEN FALSE
        ELSE IF b.authors = <<>> \/ b.authors[1].name = <<"U","n","k","n","o","w","n">> THEN FALSE
        ELSE IF \/ StrContains(lower_title, <<"<">>)
                \/ StrContains(lower_title, <<"{">>)
                \/ Len(lower_title) > MaxTitleLen THEN FALSE
        ELSE IF \E banned \in TITLE_BLACKLIST : StrContains(lower_title, banned)
             THEN FALSE
        ELSE IF \E trigger \in reprint_triggers : StrContains(lower_title, trigger)
             THEN FALSE
        ELSE IF ~Truthy(b.published_date) THEN FALSE
        ELSE ReleaseDateOk(b.published_date, n)

\* _is_valid_release(book) when datetime.now() returns n
_is_valid_release(b, n) ==
    LET lower_title == StrLower(b.title)
    IN  IF ~Truthy(b.cover_url) THEN FALSE
        ELSE IF ~Truthy(b.isbn_13) /\ ~Truthy(b.isbn_10) THEN FALSE
        ELSE IF b.authors = <<>> \/ b.authors[1].name = <<"U","n","k","n","o","w","n">> THEN FALSE
        ELSE IF \/ StrContains(lower_title, <<"<">>)
                \/ StrContains(lower_title, <<"{">>)
                \/ Len(lower_title) > MaxTitleLen THEN FALSE
        ELSE IF \E banned \in TITLE_BLACKLIST : StrContains(lower_title, banned)
             THEN FALSE
        ELSE IF \E trigger \in reprint_triggers : StrContains(lower_title, trigger)
             THEN FALSE
        ELSE IF ~Truthy(b.published_date) THEN FALSE
        ELSE ReleaseDateOk(b.published_date, n)

\* what datetime.now() may return
Nows ==
    { [year |-> 2026, month |-> 11, day |-> 1, later |-> TRUE],
      [year |-> 2025, month |-> 3, day |-> 1, later |-> FALSE],
      [year |-> 2024, month |-> 12, day |-> 31, later |-> TRUE] }

\* a title of n letters
LongTitle(n) == [i \in 1..n |-> "a"]

GateTitles ==
    { sFoo, <<"A","<","b">>, <<"{","x">>, LongTitle(MaxTitleLen), LongTitle(MaxTitleLen + 1),
      <<"T","h","e"," ","H","o","b","b","i","t"," ","R","e","t","u","r","n","s">>, <<"F","o","o"," ","R","e","p","r","i","n","t">>, <<"F","O","O"," ","C","L","A","S","S","I","C">> }

GateDates ==
    { None, <<>>, <<"n",".","d",".">>, <<"2","0","2","8">>, <<"2","0","2","7">>, <<"2","0","2","6">>, <<"2","0","2","5">>, <<"2","0","2","4">>,
      <<"2","0","2","3">>, <<"c","2","0","2","6",".">>, <<"1","2","0","2","6","-","0","1","-","0","1">>, <<"2","0","2","6","-","1","3","-","0","1">>, <<"2","0","2","6","-","0","2","-","3","0">>,
      <<"2","0","2","6","-","5","-","1">>, <<"2","0","2","6","-","1","1","-","0","1","T","1","0",":","0","0">>, <<"2","0","2","5","-","1","0","-","3","1">>, <<"2","0","2","5","-","1","1","-","0","1">>,
      <<"2","0","2","5","-","1","1","-","0","2">>, <<"2","0","2","7","-","0","1","-","3","0">>, <<"2","0","2","7","-","0","1","-","3","1">>, <<"2","0","2","4","-","0","2","-","2","9">>,
      <<"2","0","2","4","-","0","3","-","0","1">>, <<"2","0","2","5","-","0","3","-","3","1">>, <<"2","0","2","5","-","0","4","-","0","1">>, <<"2","0","2","5","-","0","5","-","3","0">>,
      <<"2","0","2","5","-","0","5","-","3","1">>, <<"2","0","2","3","-","1","2","-","3","1">>, <<"2","0","2","4","-","0","1","-","0","1">> }

\* the records the gate is applied to, as the Open Library mapper builds them
\* (main.py 470-495), the cover possibly set by the rescue of main.py 1123-1132
GateBooks ==
    { OlItem(t, a, i[1], i[2], c, d, "w") :
        t \in GateTitles,
        a \in { <<>>, <<AuthorItem(<<"U","n","k","n","o","w","n">>, None)>>, <<AuthorItem(sAl, Tok("OL2A"))>> },
        i \in { <<None, None>>, <<Isbn13A, None>>, <<None, Isbn10A>> },
        c \in {None, Tok("OL-cover")},
        d \in GateDates }

GateIdle == /\ gate_book = EmptyDict
            /\ now = EmptyDict
            /\ is_valid = FALSE

\* _is_valid_release(book), called at some time now
GateBook ==
    /\ req = "gate"
    /\ pc = "start"
    /\ \E b \in GateBooks, n \in Nows :
        /\ gate_book' = b
        /\ now' = n
        /\ is_valid' = _is_valid_release(b, n)
    /\ pc' = "done"
    /\ UNCHANGED req
    /\ UNCHANGED scoreVars
    /\ UNCHANGED releaseVars
    /\ UNCHANGED searchVars
    /\ UNCHANGED lookupVars
    /\ UNCHANGED gatherVars
    /\ UNCHANGED mapVars

---------------------------------------------------------------------------
(* The new-releases request: get_new_releases, main.py 1108-1149 *)

MAX_DEPTH == 5
INTERNAL_BATCH_SIZE == 40

\* the largest limit parameter of a request
MaxLimit == 2

\* the largest number of records the paged source returns to one fetch
MaxBatch == 2

\* what get_open_library_new_releases returns (main.py 653-668): records of
\* the Open Library mapper, whose published_date is a year
ReleaseItems ==
    { OlItem(sFoo, <<AuthorItem(sAl, Tok("OL2A"))>>, Isbn13A, None, Tok("OL-cover"), <<"2","0","2","6">>, "n1"),
      OlItem(sFooBar, <<AuthorItem(sAl, Tok("OL2A"))>>, None, Isbn10A, Tok("OL-cover"), <<"2","0","2","5">>, "n2"),
      OlItem(sBaz, <<AuthorItem(sBo, Tok("OL1A"))>>, Isbn13B, None, None, <<"2","0","2","5">>, "n3") }

StartIndexes == {0, 7}

\* the instants at which the new-releases requests are served
ReleaseNows == { n \in Nows : n.year = 2026 }

ReleasesIdle == /\ limit = 0
                /\ start_index = 0
                /\ valid_books = <<>>
                /\ current_offset = 0
                /\ depth = 0
                /\ release_batch = <<>>
                /\ book_idx = 0
                /\ fetch_log = <<>>
                /\ release_list = <<>>

\* a loop condition that looks at the depth only
DepthOnlyCondition == depth < MAX_DEPTH

\* the condition of the while loop, main.py 1115
LoopCondition == Len(valid_books) < limit /\ depth < MAX_DEPTH

\* main.py 1108-1113: the parameters are bound and the locals initialised
ReleasesStart ==
    /\ req = "releases"
    /\ pc = "start"
    /\ \E l \in 0..MaxLimit, s \in StartIndexes, n \in ReleaseNows :
        /\ limit' = l
        /\ start_index' = s
        /\ current_offset' = s
        /\ now' = n
    /\ valid_books' = <<>>
    /\ depth' = 0
    /\ pc' = "while"
    /\ UNCHANGED <<req, gate_book, is_valid, release_batch, book_idx, fetch_log,
                   release_list>>
    /\ UNCHANGED scoreVars
    /\ UNCHANGED searchVars
    /\ UNCHANGED lookupVars
    /\ UNCHANGED gatherVars
    /\ UNCHANGED mapVars

\* main.py 1115-1119: the loop condition holds, a batch is fetched at
\* current_offset, and an empty batch breaks out of the loop
ReleasesFetch ==
    /\ pc = "while"
    /\ LoopCondition
    /\ \E n \in 0..MaxBatch : \E batch \in ListsOfLen(ReleaseItems, n) :
        /\ fetch_log' = Append(fetch_log,
                               [offset |-> current_offset,
                                valid_before |-> Len(valid_books),
                                gated_before |-> book_idx = Len(release_batch),
                                after_empty |-> fetch_log # <<>> /\ release_batch = <<>>])
        /\ release_batch' = batch
        /\ pc' = IF batch = <<>> THEN "break" ELSE "gate"
    /\ book_idx' = 0
    /\ UNCHANGED <<req, gate_book, now, is_valid, limit, start_index, valid_books,
                   current_offset, depth, release_list>>
    /\ UNCHANGED scoreVars
    /\ UNCHANGED searchVars
    /\ UNCHANGED lookupVars
    /\ UNCHANGED gatherVars
    /\ UNCHANGED mapVars

\* the cover rescue of main.py 1122-1132: g_cover is the thumbnail Google has
\* for the ISBN, or None (also when the fetch fails)
RescueCover(b, g_cover) ==
    IF ~Truthy(b.cover_url)
       /\ Truthy(IF Truthy(b.isbn_13) THEN b.isbn_13 ELSE b.isbn_10)
       /\ Truthy(g_cover)
    THEN [b EXCEPT !.cover_url = g_cover]
    ELSE b

\* the records the loop hands to the gate: the items of a batch, as fetched
\* or with a rescued cover
ReleaseCandidates ==
    ReleaseItems \cup {RescueCover(b, Tok("G-thumb")) : b \in ReleaseItems}

\* _is_valid_release(book) for each candidate and instant, tabulated
GateVerdict ==
    [b \in ReleaseCandidates, n \in ReleaseNows |-> _is_valid_release(b, n)]

\* one iteration of `for book in ol_results`, main.py 1121-1136
ReleasesGateBook ==
    /\ pc = "gate"
    /\ book_idx < Len(release_batch)
    /\ \E g_cover \in {None, Tok("G-thumb")} :
        LET b == RescueCover(release_batch[book_idx + 1], g_cover)
        IN  /\ release_batch' = [release_batch EXCEPT ![book_idx + 1] = b]
            /\ valid_books' = IF GateVerdict[b, now]
                              THEN Append(valid_books, b) ELSE valid_books
    /\ book_idx' = book_idx + 1
    /\ UNCHANGED <<req, pc, gate_book, now, is_valid, limit, start_index,
                   current_offset, depth, fetch_log, release_list>>
    /\ UNCHANGED scoreVars
    /\ UNCHANGED searchVars
    /\ UNCHANGED lookupVars
    /\ UNCHANGED gatherVars
    /\ UNCHANGED mapVars

\* the batch is exhausted, main.py 1138-1139
ReleasesBatchDone ==
    /\ pc = "gate"
    /\ book_idx = Len(release_batch)
    /\ current_offset' = current_offset + INTERNAL_BATCH_SIZE
    /\ depth' = depth + 1
    /\ pc' = "while"
    /\ UNCHANGED <<req, gate_book, now, is_valid, limit, start_index, valid_books,
                   release_batch, book_idx, fetch_log, release_list>>
    /\ UNCHANGED scoreVars
    /\ UNCHANGED searchVars
    /\ UNCHANGED lookupVars
    /\ UNCHANGED gatherVars
    /\ UNCHANGED mapVars

\* k = b.isbn_13 or b.isbn_10 or b.title, main.py 1143
ReleaseKey(b) ==
    IF Truthy(b.isbn_13) THEN b.isbn_13
    ELSE IF Truthy(b.isbn_10) THEN b.isbn_10
    ELSE b.title

\* list(unique_books.values()), main.py 1141-1147: the first record of each key,
\* in the order of valid_books
UniqueBooks(books) ==
    LET firsts == {i \in DOMAIN books :
                      \A j \in 1..(i - 1) : ReleaseKey(books[j]) # ReleaseKey(books[i])}
    IN  [p \in 1..Cardinality(firsts) |->
            books[CHOOSE i \in firsts : Cardinality({j \in firsts : j < i}) = p - 1]]

\* the loop is left, by its condition or by break; the candidates are
\* deduplicated and cut to limit, main.py 1141-1149
ReleasesFinish ==
    /\ \/ pc = "break"
       \/ pc = "while" /\ ~LoopCondition
    /\ release_list' = Prefix(UniqueBooks(valid_books), limit)
    /\ pc' = "done"
    /\ UNCHANGED <<req, gate_book, now, is_valid, limit, start_index, valid_books,
                   current_offset, depth, release_batch, book_idx, fetch_log>>
    /\ UNCHANGED scoreVars
    /\ UNCHANGED searchVars
    /\ UNCHANGED lookupVars
    /\ UNCHANGED gatherVars
    /\ UNCHANGED mapVars

---------------------------------------------------------------------------
(* The Google search mapper _google_item_to_search_result, main.py 419-468,
   with detect_series, main.py 295-312 *)

\* a literal of a pattern compiled with re.IGNORECASE, at position k of s;
\* w is in lower case
WordAt(s, k, w) ==
    /\ k >= 1
    /\ k + Len(w) - 1 <= Len(s)
    /\ \A j \in 1..Len(w) : LowerChar(s[k + j - 1]) = w[j]

\* where a greedy run (\s+, \d+) that starts at position k of s stops: the
\* first position from k on whose character is not in the class
RunEnd(s, k, class) ==
    CHOOSE e \in k..(Len(s) + 1) :
        /\ \A j \in k..(e - 1) : s[j] \in class
        /\ (e = Len(s) + 1 \/ s[e] \notin class)

RECURSIVE IntStr(_)
\* int(digits), written back in decimal
IntStr(digits) ==
    IF Len(digits) > 1 /\ Head(digits) = "0" THEN IntStr(Tail(digits))
    ELSE digits

MaxSeriesName == 50

\* what re.search(pat, full_text, re.IGNORECASE) gives for each of the four
\* patterns, in their order (main.py 297-308): the SeriesInfo of the match
\* with its name stripped, or EmptyDict where the pattern does not match.
\* The text holds no line break, so "." matches every character.
SeriesMatches(full_text) ==
    LET n == Len(full_text)
        spaces == {" ", "\t", "\n"}
        digits == Range(DigitSeq)
        SeriesInfo(name, order) == [name |-> name, order |-> order]
        Least(S) == CHOOSE k \in S : \A j \in S : k <= j
        \* "\s+Book\s+(?P<order>\d+)" at k: first and last position of the
        \* digits, or <<>>
        BookOrderAt(k) ==
            LET a == RunEnd(full_text, k, spaces)
            IN  IF a = k \/ ~WordAt(full_text, a, <<"b","o","o","k">>) THEN <<>>
                ELSE LET c == RunEnd(full_text, a + 4, spaces)
                         d == RunEnd(full_text, c, digits)
                     IN  IF c = a + 4 \/ d = c THEN <<>> ELSE <<c, d - 1>>
        \* ",?\s+Book\s+(?P<order>\d+)" at k
        Tail1(k) == BookOrderAt(IF full_text[k] = "," THEN k + 1 ELSE k)
        \* r"(?P<name>.+?),?\s+Book\s+(?P<order>\d+)": the lazy name ends at
        \* the least position where the rest of the pattern matches
        ends1 == {k \in 2..n : Tail1(k) # <<>>}
        match1 == IF ends1 = {} THEN EmptyDict
                  ELSE LET k == Least(ends1)
                           o == Tail1(k)
                       IN  SeriesInfo(StrStrip(SubSeq(full_text, 1, k - 1)),
                                      IntStr(SubSeq(full_text, o[1], o[2])))
        \* r"Book\s+(?P<order>\d+)\s+of\s+(?P<name>.+)" from position i:
        \* <<first of digits, last of digits, first of name>>, or <<>>
        Pattern2At(i) ==
            IF ~WordAt(full_text, i, <<"b","o","o","k">>) THEN <<>>
            ELSE LET c == RunEnd(full_text, i + 4, spaces)
                     d == RunEnd(full_text, c, digits)
                     e == RunEnd(full_text, d, spaces)
                 IN  IF c = i + 4 \/ d = c \/ e = d \/ ~WordAt(full_text, e, <<"o","f">>)
                     THEN <<>>
                     ELSE LET f == RunEnd(full_text, e + 2, spaces)
                          IN  IF f = e + 2 THEN <<>>
                              ELSE IF f <= n THEN <<c, d - 1, f>>
                              \* the greedy \s+ gives its last space back to the name
                              ELSE IF f - (e + 2) >= 2 THEN <<c, d - 1, n>>
                              ELSE <<>>
        starts2 == {i \in 1..n : Pattern2At(i) # <<>>}
        match2 == IF starts2 = {} THEN EmptyDict
                  ELSE LET m == Pattern2At(Least(starts2))
                       IN  SeriesInfo(StrStrip(SubSeq(full_text, m[3], n)),
                                      IntStr(SubSeq(full_text, m[1], m[2])))
        \* r"(?P<name>.+?)\s+Trilogy" and r"(?P<name>.+?)\s+Series"
        EndsBefore(word) ==
            {k \in 2..n : LET a == RunEnd(full_text, k, spaces)
                          IN  a > k /\ WordAt(full_text, a, word)}
        MatchNamed(word) ==
            IF EndsBefore(word) = {} THEN EmptyDict
            ELSE SeriesInfo(StrStrip(SubSeq(full_text, 1, Least(EndsBefore(word)) - 1)),
                            None)
    IN  <<match1, match2, MatchNamed(<<"t","r","i","l","o","g","y">>), MatchNamed(<<"s","e","r","i","e","s">>)>>

\* a detect_series that gives up when the first matching pattern is rejected
SeriesOfFirstMatchOnly(title, subtitle) ==
    LET full_text == title \o <<" ">> \o (IF Truthy(subtitle) THEN subtitle ELSE <<>>)
        matches == SeriesMatches(full_text)
        found == {p \in 1..4 : DictTruthy(matches[p])}
        first == matches[CHOOSE p \in found : \A o \in found : p <= o]
    IN  IF found = {} THEN EmptyDict
        ELSE IF Len(first.name) > MaxSeriesName
                \/ StrLower(first.name) \in { <<"f","i","c","t","i","o","n">>, <<"n","o","v","e","l">>, <<"e","d","i","t","i","o","n">> }
        THEN EmptyDict
        ELSE first

\* detect_series, main.py 295-312; the value is a SeriesInfo, or EmptyDict
\* where the code returns None
detect_series(title, subtitle) ==
    LET full_text == title \o <<" ">> \o (IF Truthy(subtitle) THEN subtitle ELSE <<>>)
        matches == SeriesMatches(full_text)
        SeriesStopTerms == { <<"f","i","c","t","i","o","n">>, <<"n","o","v","e","l">>, <<"e","d","i","t","i","o","n">> }
        Least(S) == CHOOSE k \in S : \A j \in S : k <= j
        Kept(m) == /\ DictTruthy(m)
                   /\ ~(Len(m.name) > MaxSeriesName \/ StrLower(m.name) \in SeriesStopTerms)
        kept == {p \in 1..4 : Kept(matches[p])}
    IN  IF kept = {} THEN EmptyDict ELSE matches[Least(kept)]

\* _get_isbns_from_google_item, main.py 402-407
_get_isbns_from_google_item(item) ==
    LET ids == Get(Get(item, "volumeInfo", EmptyDict), "industryIdentifiers", <<>>)
        Firsts(type) == {i \in DOMAIN ids : ids[i].type = type /\ Truthy(ids[i].identifier)}
        First(type) == IF Firsts(type) = {} THEN None
                       ELSE ids[CHOOSE i \in Firsts(type) : \A j \in Firsts(type) : i <= j].identifier
    IN  <<First("ISBN_13"), First("ISBN_10")>>

MapperTagsBelow == 2

\* _google_item_to_search_result; the image links of the item are its
\* thumbnail alone
_google_item_to_search_result(item) ==
    LET g_info == Get(item, "volumeInfo", EmptyDict)
        isbns == _get_isbns_from_google_item(item)
        raw_authors == Get(g_info, "authors", <<>>)
        author_objects == [i \in DOMAIN raw_authors |-> AuthorItem(raw_authors[i], None)]
        processed == _process_rich_categories(Get(g_info, "categories", <<>>))
        smart_cats == IF Len(processed) < MapperTagsBelow
                      THEN heuristic_tagging(Get(g_info, "description", <<>>) \o <<" ">>
                                                \o Get(g_info, "title", <<>>), processed)
                      ELSE processed
        series == detect_series(Get(g_info, "title", <<>>), Get(g_info, "subtitle", None))
        fmt == classify_format(Get(g_info, "pageCount", None),
                               Get(Get(item, "saleInfo", EmptyDict), "isEbook", FALSE))
        base == GoogleItem(Get(g_info, "title", <<"N","o"," ","T","i","t","l","e">>), author_objects,
                           isbns[1], isbns[2],
                           Get(Get(g_info, "imageLinks", EmptyDict), "thumbnail", None),
                           Get(g_info, "publishedDate", None), "g")
    IN  [base EXCEPT !.subtitle = Get(g_info, "subtitle", None),
                     !.publisher = Get(g_info, "publisher", None),
                     !.average_rating = Get(g_info, "averageRating", None),
                     !.ratings_count = Get(g_info, "ratingsCount", None),
                     !.categories = smart_cats,
                     !.google_book_id = Get(item, "id", None),
                     !.series = series,
                     !.format_tag = fmt,
                     !.description = Get(g_info, "description", None)]

\* the items of a Google Books response
MapItems ==
    LET \* the volumeInfo entries detect_series reads
        MapTitles ==
            { EmptyDict,
              [title |-> <<"D","u","n","e",","," ","B","o","o","k"," ","1">>],
              [title |-> <<"T","h","e"," ","H","o","b","b","i","t">>],
              [title |-> <<"B","o","o","k"," ","2"," ","o","f"," ","D","u","n","e">>],
              [title |-> <<"D","u","n","e"," ","T","r","i","l","o","g","y">>],
              [title |-> <<"t","h","e"," ","d","u","n","e"," ","s","e","r","i","e","s">>],
              [title |-> <<"F","i","c","t","i","o","n",","," ","B","o","o","k"," ","3">>],
              [title |-> <<"F","i","c","t","i","o","n",","," ","B","o","o","k"," ","1"," ","o","f"," ","D","u","n","e">>],
              [title |-> <<"E","d","i","t","i","o","n"," ","b","o","o","k"," ","0","4"," ","T","r","i","l","o","g","y">>],
              [title |-> <<"N","o","v","e","l"," ","S","e","r","i","e","s">>],
              [title |-> <<"D","u","n","e"," ","T","r","i","l","o","g","y",","," ","B","o","o","k"," ","2">>],
              [title |-> [i \in 1..(MaxSeriesName + 1) |-> "x"] \o <<","," ","B","o","o","k"," ","1">>],
              [title |-> [i \in 1..MaxSeriesName |-> "x"] \o <<","," ","B","o","o","k"," ","1">>],
              [title |-> <<"D","u","n","e">>, subtitle |-> <<"B","O","O","K"," "," ","7">>],
              [title |-> <<"D","u","n","e">>, subtitle |-> <<"A"," ","N","o","v","e","l">>] }
        \* the volumeInfo entries the tagging reads
        MapCategories ==
            { EmptyDict,
              [categories |-> << RawStr(<<"F","i","c","t","i","o","n">>) >>],
              [categories |-> << RawStr(<<"F","i","c","t","i","o","n"," ","/"," ","F","a","n","t","a","s","y">>) >>],
              [categories |-> << RawStr(<<"H","i","s","t","o","r","y">>), RawStr(<<"T","r","a","v","e","l">>), RawStr(<<"G","e","n","e","r","a","l">>) >>] }
        MapDescriptions ==
            { EmptyDict, [description |-> <<"A"," ","d","r","a","g","o","n"," ","a","n","d"," ","a"," ","s","p","y">>] }
        \* the volumeInfo entries classify_format reads
        MapPageCounts ==
            { EmptyDict } \cup
            { [pageCount |-> p] : p \in { <<"0">>, <<"1">>, <<"4","9">>, <<"5","0">>, <<"1","4","9">>, <<"1","5","0">>, <<"3","2","0">> } }
        MapSaleInfos ==
            { EmptyDict, [saleInfo |-> [isEbook |-> FALSE]], [saleInfo |-> [isEbook |-> TRUE]] }
    IN  { [volumeInfo |-> t @@ c @@ d @@ p] @@ s :
          t \in MapTitles, c \in MapCategories, d \in MapDescriptions,
          p \in MapPageCounts, s \in MapSaleInfos }

MapIdle == /\ map_item = EmptyDict
           /\ mapped_item = EmptyDict
           /\ categories_in = <<>>
           /\ tags = <<>>
           /\ tags_again = <<>>

\* _google_item_to_search_result(item) for one item of the response
MapGoogleItem ==
    /\ req = "map"
    /\ pc = "start"
    /\ \E item \in MapItems :
        /\ map_item' = item
        /\ mapped_item' = _google_item_to_search_result(item)
    /\ pc' = "done"
    /\ UNCHANGED <<req, categories_in, tags, tags_again>>
    /\ UNCHANGED <<scoreVars, gateVars, releaseVars>>
    /\ UNCHANGED searchVars
    /\ UNCHANGED lookupVars
    /\ UNCHANGED gatherVars

MaxCategories == 2

\* the lists a source sends as categories: each entry a string, or an object
\* with a name
RawCategoryLists ==
    LET RawCategories ==
        { RawStr(<<"F","i","c","t","i","o","n"," ","/"," ","F","a","n","t","a","s","y">>), RawStr(<<" ","G","e","n","e","r","a","l"," ">>), RawStr(<<"M","a","g","i","c"," ","-","-"," ","B","o","o","k","s">>),
          RawStr(<<"a","/","/","b","-","-">>), RawStr(<<"S","c","i","-","F","i">>), RawStr(<<"A"," ","-","-","-"," ","B">>), RawStr(<<>>),
          RawStr(<<"f","a","n","t","a","s","y">>), RawStr(<<"y","o","u","n","g"," ","a","d","u","l","t"," ","f","i","c","t","i","o","n">>),
          RawDict([name |-> <<"J","u","v","e","n","i","l","e"," ","F","i","c","t","i","o","n"," ","/"," ","L","o","v","e"," ">>]), RawDict(EmptyDict) }
    IN  UNION {[1..n -> RawCategories] : n \in 0..MaxCategories}

\* _process_rich_categories(raw_categories)
ProcessCategories ==
    /\ req = "categories"
    /\ pc = "start"
    /\ \E raw \in RawCategoryLists :
        /\ categories_in' = raw
        /\ tags' = _process_rich_categories(raw)
    /\ pc' = "once"
    /\ UNCHANGED <<req, map_item, mapped_item, tags_again>>
    /\ UNCHANGED <<scoreVars, gateVars, releaseVars>>
    /\ UNCHANGED searchVars
    /\ UNCHANGED lookupVars
    /\ UNCHANGED gatherVars

\* _process_rich_categories applied to its own output
ProcessCategoriesAgain ==
    /\ req = "categories"
    /\ pc = "once"
    /\ tags_again' = _process_rich_categories([i \in DOMAIN tags |-> RawStr(tags[i])])
    /\ pc' = "done"
    /\ UNCHANGED <<req, map_item, mapped_item, categories_in, tags>>
    /\ UNCHANGED <<scoreVars, gateVars, releaseVars>>
    /\ UNCHANGED searchVars
    /\ UNCHANGED lookupVars
    /\ UNCHANGED gatherVars

---------------------------------------------------------------------------
(* The service handles one request *)

Init ==
    /\ req \in {"search", "lookup", "score", "gate", "releases", "map", "categories"}
    /\ pc = "start"
    /\ Idle
    /\ LookupIdle
    /\ ScoreIdle
    /\ GateIdle
    /\ ReleasesIdle
    /\ MapIdle

Next ==
    \/ SearchStart
    \/ TaskDone
    \/ SearchGather
    \/ MergeGoogleItem
    \/ GoogleLoopDone
    \/ MergeOlItem
    \/ MapLocResults
    \/ MergeLocItem
    \/ SortAndReturn
    \/ LookupValidate
    \/ LookupGather
    \/ LookupBuild
    \/ ScoreBook
    \/ GateBook
    \/ ReleasesStart
    \/ ReleasesFetch
    \/ ReleasesGateBook
    \/ ReleasesBatchDone
    \/ ReleasesFinish
    \/ MapGoogleItem
    \/ ProcessCategories
    \/ ProcessCategoriesAgain

Spec == Init /\ [][Next]_vars

\* the new-releases request alone; every await of the handler returns (the
\* fetches have timeouts, main.py 96), so the handler keeps taking steps
ReleasesInit == Init /\ req = "releases"

ReleasesNext ==
    \/ ReleasesStart
    \/ ReleasesFetch
    \/ ReleasesGateBook
    \/ ReleasesBatchDone
    \/ ReleasesFinish

ReleasesSpec == ReleasesInit /\ [][ReleasesNext]_vars /\ WF_vars(ReleasesNext)

---------------------------------------------------------------------------
(* Properties of the search merge *)

SearchDone == req = "search" /\ pc = "done"

\* the input records of the merge in the order the three loops read them: the
\* Google and Open Library objects as passed in, then the mapped LOC items
InputRecords ==
    heap0 \o [i \in DOMAIN loc_results |-> _loc_item_to_search_result(loc_results[i])]

\* how many of the input records the loops have read so far
Processed ==
    IF req # "search" \/ pc \in {"start", "gather"} THEN 0
    ELSE IF pc = "google" THEN idx
    ELSE IF pc = "ol" THEN Len(google_results) + idx
    ELSE IF pc = "loc" THEN Len(heap0) + idx
    ELSE Len(InputRecords)

\* the records returned, in order
Output == [i \in DOMAIN final_list |-> heap[final_list[i]]]

\* the identity key as the claims state it
StatedKey(r) == IF Truthy(r.isbn_13) THEN r.isbn_13 ELSE get_fallback_key(r)

\* C1: when the search merge returns, no two output records have the same
\* identity key (ISBN-13 when present, else the title/first-author key), every
\* key of an input record is the key of an output record and the reverse, and
\* the input records that carry one ISBN-13 are in exactly one output record.
C1_OneRecordPerKey ==
    SearchDone =>
        LET out_keys == <<>> \o [i \in DOMAIN final_list |-> StatedKey(heap[final_list[i]])]
            in_records == InputRecords
        IN  /\ \A i, j \in DOMAIN out_keys : i # j => out_keys[i] # out_keys[j]
            /\ Range(out_keys) = {StatedKey(in_records[i]) : i \in DOMAIN in_records}
            /\ \A e \in Range(merged_books) : e.key = StatedKey(heap[e.ref])
            /\ \A r \in Range(in_records) :
                  Truthy(r.isbn_13) =>
                      Cardinality({i \in DOMAIN final_list :
                                      heap[final_list[i]].isbn_13 = r.isbn_13}) = 1

\* two inputs of different sources, titles and authors share an ISBN-13 and the
\* output has one record with it (and another record besides)
C1_Witness ==
    /\ SearchDone
    /\ Len(Output) >= 2
    /\ \E a, b \in DOMAIN heap0 :
          /\ a # b
          /\ Truthy(heap0[a].isbn_13)
          /\ heap0[a].isbn_13 = heap0[b].isbn_13
          /\ heap0[a].title # heap0[b].title
          /\ heap0[a].authors # heap0[b].authors
          /\ heap0[a].data_sources # heap0[b].data_sources
          /\ Cardinality({i \in DOMAIN Output :
                            Output[i].isbn_13 = heap0[a].isbn_13}) = 1

\* the scalar fields of a search result
ScalarFields == {"title", "subtitle", "publisher", "published_date",
                 "description", "average_rating", "ratings_count", "cover_url"}

\* the input records grouped under key k, in source order
Contributors(k) ==
    LET at == {i \in DOMAIN InputRecords : StatedKey(InputRecords[i]) = k}
    IN  [p \in 1..Cardinality(at) |->
            InputRecords[CHOOSE i \in at : Cardinality({j \in at : j < i}) = p - 1]]

FirstNonEmpty(records, f) ==
    LET full == {i \in DOMAIN records : Truthy(records[i][f])}
    IN  IF full = {} THEN None
        ELSE records[CHOOSE i \in full : \A j \in full : i <= j][f]

\* C2 (as claimed): a scalar field that holds a non-empty value from a
\* higher-priority source is left unchanged by merging a lower-priority record:
\* in the search merge a held record keeps its scalar fields, and in the direct
\* lookup the title, description, publisher and published date that Google or
\* Open Library supplied survive _merge_loc_data.
C2_FillOnly_Claimed ==
    /\ req = "search" =>
          \A e \in Range(merged_books) : \A f \in ScalarFields :
              e.ref \in DOMAIN heap0 /\ Truthy(heap0[e.ref][f])
                  => heap[e.ref][f] = heap0[e.ref][f]
    /\ (req = "lookup" /\ pc = "done" /\ http_error = 0) =>
          LET g_info == Get(google_volume, "volumeInfo", EmptyDict)
              upper(gk, ok) == Get(g_info, gk, Get(open_library_book, ok, None))
          IN  /\ Truthy(upper("title", "title"))
                    => merged_book.title = upper("title", "title")
              /\ Truthy(upper("publishedDate", "publish_date"))
                    => merged_book.published_date = upper("publishedDate", "publish_date")
              /\ Truthy(Get(g_info, "publisher", None))
                    => merged_book.publisher = g_info["publisher"]
              /\ Truthy(clean_html_text(Get(g_info, "description", None)))
                    => merged_book.description = clean_html_text(g_info["description"])

\* no two records of the group come from the same source
OnePerSource(group) ==
    \A i, j \in DOMAIN group : i # j => group[i].data_sources # group[j].data_sources

\* C3 (as claimed): when the search merge returns, each scalar field of an
\* output record is the first non-empty value of the records grouped under its
\* key, scanned in the order Google, Open Library, Library of Congress (stated
\* for the groups that hold one record of a source).
C3_FirstNonEmpty_Claimed ==
    SearchDone =>
        \A i \in DOMAIN Output : \A f \in ScalarFields :
            LET group == Contributors(StatedKey(Output[i]))
                first == FirstNonEmpty(group, f)
            IN  OnePerSource(group) =>
                    IF Truthy(first) THEN Output[i][f] = first
                    ELSE ~Truthy(Output[i][f])

\* the provenance of those of the records that have key k, each source once,
\* in the order Google, Open Library, Library of Congress; keys[i] is the key
\* of records[i]
ProvenanceSoFar(records, keys, k) ==
    LET seen == {records[i].data_sources[1] :
                    i \in {j \in DOMAIN records : keys[j] = k}}
    IN  Filter(<<GoogleBooks, OpenLibrary, LibraryOfCongress>>, seen)

\* C4: at every step of the search merge, the dataSources of the record held
\* under a key is exactly the provenance of the input records read so far under
\* that key, each once, in the order Google, Open Library, Library of Congress.
C4_DataSources ==
    (req = "search" /\ merged_books # <<>>) =>
        LET read == SubSeq(InputRecords, 1, Processed)
            keys == <<>> \o [j \in DOMAIN read |-> StatedKey(read[j])]
        IN  \A e \in Range(merged_books) :
                heap[e.ref].data_sources = ProvenanceSoFar(read, keys, e.key)

\* a record is held with all three sources attributed
C4_Witness ==
    /\ req = "search"
    /\ \E e \in Range(merged_books) :
          heap[e.ref].data_sources = <<GoogleBooks, OpenLibrary, LibraryOfCongress>>

AuthorNames(authors) == [i \in DOMAIN authors |-> authors[i].name]

\* C5 (as claimed): the merged author list is that of the first source, in the
\* order Google, Open Library, Library of Congress, that has a non-empty list,
\* in the search merge (stated for the groups that hold one record of a source)
\* and in the direct lookup.
C5_AuthorPriority_Claimed ==
    /\ SearchDone =>
          \A i \in DOMAIN Output :
              LET group == Contributors(StatedKey(Output[i]))
                  full == {j \in DOMAIN group : group[j].authors # <<>>}
              IN  OnePerSource(group) =>
                      IF full = {} THEN Output[i].authors = <<>>
                      ELSE Output[i].authors
                             = group[CHOOSE j \in full : \A k \in full : j <= k].authors
    /\ (req = "lookup" /\ pc = "done" /\ http_error = 0) =>
          LET g == Get(Get(google_volume, "volumeInfo", EmptyDict), "authors", <<>>)
              ol == AuthorNames(Get(open_library_book, "authors", <<>>))
              loc == AuthorNames(Get(loc_data, "authors", <<>>))
          IN  AuthorNames(merged_book.authors)
                = IF g # <<>> THEN g ELSE IF ol # <<>> THEN ol ELSE loc

NoCaseDuplicates(list) ==
    \A i, j \in DOMAIN list : i # j => StrLower(list[i]) # StrLower(list[j])

\* C6 (as claimed): the subjects of a merged record have no two entries equal
\* ignoring case and hold, ignoring case, every subject of a contributing
\* source, in the direct lookup and in the search merge.
C6_SubjectsUnion_Claimed ==
    /\ (req = "lookup" /\ pc = "done" /\ http_error = 0) =>
          LET g_info == Get(google_volume, "volumeInfo", EmptyDict)
              supplied == Range(_process_rich_categories(Get(g_info, "categories", <<>>)))
                  \cup Range(_process_rich_categories(Get(open_library_book, "subjects", <<>>)))
                  \cup Range(Get(loc_data, "subjects", <<>>))
          IN  /\ NoCaseDuplicates(merged_book.subjects)
              /\ \A s \in supplied :
                    \E i \in DOMAIN merged_book.subjects :
                        StrLower(merged_book.subjects[i]) = StrLower(s)
    /\ SearchDone =>
          \A i \in DOMAIN Output :
              LET group == Contributors(StatedKey(Output[i]))
              IN  /\ NoCaseDuplicates(Output[i].categories)
                  /\ \A j \in DOMAIN group : \A s \in Range(group[j].categories) :
                        \E c \in Range(Output[i].categories) : StrLower(c) = StrLower(s)

\* the identity key with the ISBN-13 derived from a checksum-valid isbn10
DerivedKey(r) ==
    IF Truthy(r.isbn_13) THEN r.isbn_13
    ELSE IF Truthy(r.isbn_10) /\ _is_valid_isbn10_checksum(r.isbn_10)
         THEN _convert_isbn10_to_isbn13(r.isbn_10)
    ELSE get_fallback_key(r)

\* C7 (as claimed): a record with no isbn13 and a checksum-valid isbn10 is keyed
\* by the ISBN-13 derived from it, so no two output records have the same
\* derived key.
C7_DerivedIsbnKey_Claimed ==
    SearchDone =>
        \A i, j \in DOMAIN Output :
            i # j => DerivedKey(Output[i]) # DerivedKey(Output[j])

\* normalize of the stated key: trim, lowercase, collapse internal whitespace
NormalizeText(s) == CollapseSpaces(StrStrip(StrLower(s)))

NormalizedFallbackKey(r) ==
    IF r.authors = <<>> THEN NoAuthPrefix \o NormalizeText(r.title)
    ELSE NormalizeText(r.title) \o <<"|">> \o NormalizeText(r.authors[1].name)

\* C8 (as claimed): records without an ISBN-13 whose titles and first authors
\* differ only in case, outer whitespace or the length of inner whitespace runs
\* are merged, so no two ISBN-less output records have the same normalized key.
C8_NormalizedKey_Claimed ==
    SearchDone =>
        \A i, j \in DOMAIN Output :
            (i # j /\ ~Truthy(Output[i].isbn_13) /\ ~Truthy(Output[j].isbn_13))
                => NormalizedFallbackKey(Output[i]) # NormalizedFallbackKey(Output[j])

\* C9: a record held under an ISBN-13 is never merged with a record that has no
\* ISBN: it carries no Library of Congress attribution, its format tag and lccn
\* are as passed in, every source it names supplied a record with that ISBN-13,
\* and when the merge returns every Library of Congress item is in an output
\* record that has no ISBN-13.
C9_IsbnGroupsApart ==
    req = "search" =>
        /\ \A e \in Range(merged_books) :
              Truthy(heap[e.ref].isbn_13) =>
                  /\ LibraryOfCongress \notin Range(heap[e.ref].data_sources)
                  /\ heap[e.ref].format_tag = heap0[e.ref].format_tag
                  /\ heap[e.ref].lccn = heap0[e.ref].lccn
                  /\ \A s \in Range(heap[e.ref].data_sources) :
                        \E i \in DOMAIN heap0 :
                            /\ heap0[i].isbn_13 = heap[e.ref].isbn_13
                            /\ heap0[i].data_sources = <<s>>
        /\ SearchDone =>
              \A l \in DOMAIN loc_results :
                  \E i \in DOMAIN Output :
                      /\ ~Truthy(Output[i].isbn_13)
                      /\ LibraryOfCongress \in Range(Output[i].data_sources)
                      /\ get_fallback_key(Output[i])
                            = get_fallback_key(_loc_item_to_search_result(loc_results[l]))

\* a Library of Congress item has, ignoring case, the title of a Google record
\* that has an ISBN-13, and both are in the output, apart
C9_Witness ==
    /\ SearchDone
    /\ \E l \in DOMAIN loc_results, g \in DOMAIN google_results :
          /\ Truthy(heap0[g].isbn_13)
          /\ StrLower(heap0[g].title) = StrLower(loc_results[l].title)
          /\ \E i, j \in DOMAIN Output :
                /\ i # j
                /\ Output[i].isbn_13 = heap0[g].isbn_13
                /\ Output[i].data_sources = <<GoogleBooks>>
                /\ Output[j].data_sources = <<LibraryOfCongress>>
                /\ Output[j].title = loc_results[l].title

\* C10 (as claimed): validate_and_clean_isbn returns the cleaned string for 13
\* digits with a correct check digit, the converted ISBN-13 for 10 characters
\* with a valid ISBN-10 checksum, the cleaned string for 8 to 12 digits, and
\* fails with the invalid-identifier error for every other input.
C10_ValidateCases_Claimed ==
    (req = "lookup" /\ pc # "start") =>
        LET cleaned == CleanIsbn(raw_isbn)
        IN  IF Len(cleaned) = 13 /\ _is_valid_isbn13_checksum(cleaned)
            THEN isbn = cleaned
            ELSE IF Len(cleaned) = 10 /\ _is_valid_isbn10_checksum(cleaned)
            THEN isbn = _convert_isbn10_to_isbn13(cleaned)
            ELSE IF StrIsDigit(cleaned) /\ Len(cleaned) >= MinIdentifierLen
                    /\ Len(cleaned) <= 12
            THEN isbn = cleaned
            ELSE isbn = None /\ http_error = 400

---------------------------------------------------------------------------
(* C11 *)

\* the cleaned form of the identifier of the lookup request
Cleaned == CleanIsbn(raw_isbn)

LookupValidated == req = "lookup" /\ pc # "start"

\* C11: whenever the validated identifier of a lookup is, once cleaned, a
\* ten-character string that passes the ISBN-10 checksum (with a digit, "X" or
\* "x" as check character), the identifier the request goes on with is a
\* string of thirteen digits that passes the ISBN-13 checksum.
C11_ConvertedIsValid ==
    (LookupValidated /\ Len(Cleaned) = 10 /\ _is_valid_isbn10_checksum(Cleaned))
        => /\ http_error # 400
           /\ Len(isbn) = 13
           /\ StrIsDigit(isbn)
           /\ _is_valid_isbn13_checksum(isbn)
           /\ SubSeq(isbn, 4, 12) = SubSeq(Cleaned, 1, 9)

\* a lookup whose identifier is a decorated ISBN-10 with a lower-case "x" as
\* check character has been validated and converted
C11_Witness ==
    /\ LookupValidated
    /\ Len(raw_isbn) > 10
    /\ Len(Cleaned) = 10
    /\ Cleaned[10] = "x"
    /\ _is_valid_isbn10_checksum(Cleaned)
    /\ _is_valid_isbn13_checksum(isbn)

---------------------------------------------------------------------------
(* C12 *)

ScoreDone == req = "score" /\ pc = "done"

\* the record with a cover added and nothing else changed
WithCover(b) == [b EXCEPT !.cover_url = Tok("added-cover")]

\* the query is given and, normalised, equals the normalised title
ExactTitleMatch(b, q) == q # <<>> /\ Truthy(b.title) /\ Norm(q) = Norm(b.title)

\* x stands before y in the list
Before(list, x, y) ==
    \E i, j \in DOMAIN list : i < j /\ list[i] = x /\ list[j] = y

\* the ranking the merge would return had record a carried a cover
RankingWithCoverOn(a) ==
    SortByScore(DictValues(merged_books), [heap EXCEPT ![a] = WithCover(heap[a])], query)

\* adding a cover to any one cover-less record leaves any two other
\* cover-less records of the result in the order they have
OthersKeepOrder ==
    SearchDone =>
        LET coverless == {r \in Range(final_list) : ~Truthy(heap[r].cover_url)}
        IN  \A a \in coverless :
                Cardinality(coverless \ {a}) >= 2 =>
                    LET ranking == RankingWithCoverOn(a)
                    IN  \A x, y \in coverless \ {a} :
                            x # y => (Before(final_list, x, y) <=> Before(ranking, x, y))

\* C12 as claimed: for any record without a cover and any query, the record
\* with a cover added scores exactly 10 more.
C12_CoverAddsTen_Claimed ==
    (ScoreDone /\ ~Truthy(scored_book.cover_url))
        => score_book(WithCover(scored_book), scored_query) = score + 10

\* C12: adding a cover to a record raises its score by exactly 10, except
\* when a query is given whose normalised form equals the normalised title:
\* there the record also loses the indie-rescue boost of 200, so its score
\* falls by 190.  In every case the relative order of two other records
\* that both lack a cover is unchanged.
C12_CoverDelta ==
    /\ (ScoreDone /\ ~Truthy(scored_book.cover_url))
            => score_book(WithCover(scored_book), scored_query) =
                   IF ExactTitleMatch(scored_book, scored_query)
                   THEN score - 190 ELSE score + 10
    /\ OthersKeepOrder

\* a cover-less record has been scored against a query that equals its
\* title up to case and punctuation
C12_Witness ==
    /\ ScoreDone
    /\ ~Truthy(scored_book.cover_url)
    /\ scored_book.title = sFooBar
    /\ scored_query = <<"F","o","o"," ","B","a","r","!">>
    /\ score_book(WithCover(scored_book), scored_query) = score - 190

\* a search has returned three records, two of them without a cover
C12_OrderWitness ==
    /\ SearchDone
    /\ \E a, x, y \in Range(final_list) :
          /\ a # x /\ a # y /\ x # y
          /\ ~Truthy(heap[x].cover_url) /\ ~Truthy(heap[y].cover_url)
          /\ ~Truthy(heap[a].cover_url)
          /\ score_book(heap[x], query) # score_book(heap[y], query)

---------------------------------------------------------------------------
(* C13 *)

\* the title earns a boost under the query (main.py 574-579)
TitleMatches(b, q) ==
    /\ q # <<>>
    /\ Truthy(b.title)
    /\ \/ Norm(q) = Norm(b.title)
       \/ StrContains(Norm(b.title), Norm(q)) /\ Len(Norm(q)) > 5

\* the author name earns a boost under the query (main.py 584-588)
AuthorMatches(name, q) ==
    /\ q # <<>>
    /\ \/ Norm(q) = Norm(name)
       \/ StrContains(Norm(name), Norm(q)) /\ Len(Norm(q)) > 4

\* the sequence without its i-th element
RemoveAt(seq, i) == SubSeq(seq, 1, i - 1) \o SubSeq(seq, i + 1, Len(seq))

\* the records that are b with the cover taken away
WithoutCover(b) ==
    IF Truthy(b.cover_url) THEN {[b EXCEPT !.cover_url = None]} ELSE {}

\* the records that are b with one boost condition other than the cover
\* taken away and everything else the same
WithoutOneOtherSignal(b, q) ==
    (IF Truthy(b.isbn_13) THEN {[b EXCEPT !.isbn_13 = None]} ELSE {})
    \cup (IF Truthy(b.published_date) THEN {[b EXCEPT !.published_date = None]} ELSE {})
    \cup (IF LibraryOfCongress \in Range(b.data_sources)
          THEN {[b EXCEPT !.data_sources = Filter(b.data_sources,
                                Range(b.data_sources) \ {LibraryOfCongress})]}
          ELSE {})
    \cup (IF TitleMatches(b, q)
          THEN {b2 \in {[b EXCEPT !.title = t] : t \in {x.title : x \in ScoreBooks}} :
                    ~TitleMatches(b2, q)}
          ELSE {})
    \cup {[b EXCEPT !.authors = RemoveAt(b.authors, i)] :
              i \in {j \in DOMAIN b.authors : AuthorMatches(b.authors[j].name, q)}}

\* C13 as claimed: removing any single boost condition (cover, ISBN-13,
\* published date, Library of Congress source, a title match, an author
\* match) never increases the score.
C13_Monotonic_Claimed ==
    ScoreDone =>
        \A b2 \in WithoutCover(scored_book) \cup WithoutOneOtherSignal(scored_book, scored_query) :
            score_book(b2, scored_query) <= score

\* C13: removing the ISBN-13, the published date, the Library of Congress
\* source, a title match or an author match never increases the score;
\* removing the cover lowers the score by 10, except when a query is given
\* whose normalised form equals the normalised title, where removing the
\* cover raises the score by 190 (the indie rescue).
C13_MonotonicButCover ==
    ScoreDone =>
        /\ \A b2 \in WithoutOneOtherSignal(scored_book, scored_query) :
                score_book(b2, scored_query) <= score
        /\ \A b2 \in WithoutCover(scored_book) :
                score_book(b2, scored_query) =
                    IF ExactTitleMatch(scored_book, scored_query)
                    THEN score + 190 ELSE score - 10

\* a record with a cover, an ISBN-13, a date, the Library of Congress among
\* its sources, two authors of which one matches, and a title equal to the
\* query has been scored: every signal can be removed, and removing the cover
\* raises the score
C13_Witness ==
    /\ ScoreDone
    /\ Truthy(scored_book.cover_url)
    /\ Truthy(scored_book.isbn_13)
    /\ Truthy(scored_book.published_date)
    /\ LibraryOfCongress \in Range(scored_book.data_sources)
    /\ scored_book.title = sFoo
    /\ scored_query = sFooLower
    /\ Len(scored_book.authors) = 2
    /\ Cardinality(WithoutOneOtherSignal(scored_book, scored_query)) >= 4
    /\ \E b2 \in WithoutCover(scored_book) : score_book(b2, scored_query) > score

\* a record whose author matches the query has been scored, and the record
\* without that author scores less
C13_AuthorWitness ==
    /\ ScoreDone
    /\ \E i \in DOMAIN scored_book.authors :
          /\ AuthorMatches(scored_book.authors[i].name, scored_query)
          /\ score_book([scored_book EXCEPT !.authors = RemoveAt(scored_book.authors, i)],
                        scored_query) < score

---------------------------------------------------------------------------
(* C14 *)

\* C14 as claimed: with no query, the score of a record is 10 for a cover
\* plus 5 for an ISBN-13 plus 2 for a rating plus 1 for a published date plus
\* 3 for the Library of Congress among its data sources.
C14_AdditiveWeights_Claimed ==
    (ScoreDone /\ scored_query = <<>>)
        => score = (IF Truthy(scored_book.cover_url) THEN 10 ELSE 0)
                 + (IF Truthy(scored_book.isbn_13) THEN 5 ELSE 0)
                 + (IF Truthy(scored_book.average_rating) THEN 2 ELSE 0)
                 + (IF Truthy(scored_book.published_date) THEN 1 ELSE 0)
                 + (IF LibraryOfCongress \in Range(scored_book.data_sources)
                    THEN 3 ELSE 0)

---------------------------------------------------------------------------
(* C15 *)

\* the score the sort gives the record held under the object id
FinalScore(ref) == score_book(heap[ref], query)

\* the place of the record's identity key in merged_books, that is, the
\* order in which the keys were first inserted
InsertionPlace(ref) == CHOOSE i \in DOMAIN merged_books : merged_books[i].ref = ref

\* C15: the list the search merge returns holds the merged records, each
\* once, in order of non-increasing score, and two records of equal score
\* stand in the order in which their identity keys were first inserted.
C15_StableDescending ==
    SearchDone =>
        /\ Len(final_list) = Len(merged_books)
        /\ Range(final_list) = Range(DictValues(merged_books))
        /\ LET scores == <<>> \o [i \in DOMAIN final_list |-> FinalScore(final_list[i])]
           IN  \A i, j \in DOMAIN final_list :
                  i < j =>
                    /\ scores[i] >= scores[j]
                    /\ scores[i] = scores[j]
                          => InsertionPlace(final_list[i]) < InsertionPlace(final_list[j])

\* a search has returned three records, two of equal score, and the sort
\* has moved a record of higher score in front of them
C15_Witness ==
    /\ SearchDone
    /\ Len(final_list) = 3
    /\ final_list # DictValues(merged_books)
    /\ \E i, j \in DOMAIN final_list :
          /\ i < j
          /\ FinalScore(final_list[i]) = FinalScore(final_list[j])
    /\ \E i, j \in DOMAIN final_list :
          /\ FinalScore(final_list[i]) > FinalScore(final_list[j])
          /\ InsertionPlace(final_list[i]) > InsertionPlace(final_list[j])

---------------------------------------------------------------------------
(* C16 *)

GateDone == req = "gate" /\ pc = "done"

\* what the gate requires of a record apart from the date window
MeetsStaticConditions(b) ==
    /\ Truthy(b.cover_url)
    /\ Truthy(b.isbn_13) \/ Truthy(b.isbn_10)
    /\ Len(b.authors) >= 1
    /\ b.authors[1].name # <<"U","n","k","n","o","w","n">>
    /\ \A i \in DOMAIN b.title : b.title[i] \notin {"<", "{"}
    /\ Len(b.title) <= 150
    /\ \A banned \in TITLE_BLACKLIST : ~StrContains(StrLower(b.title), banned)
    /\ \A trigger \in reprint_triggers : ~StrContains(StrLower(b.title), trigger)
    /\ Truthy(b.published_date)

\* C16: the release gate accepts a record only if it has a cover, an
\* ISBN-13 or ISBN-10, at least one author of which the first is not named
\* "Unknown", a title without "<" or "{" and of at most 150 characters whose
\* lower-cased form contains no blacklisted title and no reprint keyword, and
\* a published date; a record without a cover is rejected whatever its other
\* fields.
C16_GateConditions ==
    /\ GateDone => /\ is_valid => MeetsStaticConditions(gate_book)
                   /\ ~Truthy(gate_book.cover_url) => ~is_valid

\* the gate has accepted a record that has only an ISBN-10 and a title of
\* exactly 150 characters
C16_Witness ==
    /\ GateDone
    /\ is_valid
    /\ ~Truthy(gate_book.isbn_13)
    /\ Truthy(gate_book.isbn_10)
    /\ Len(gate_book.title) = 150

\* the gate has rejected a record that lacks nothing but the cover
C16_NoCoverWitness ==
    /\ GateDone
    /\ ~is_valid
    /\ ~Truthy(gate_book.cover_url)
    /\ _is_valid_release([gate_book EXCEPT !.cover_url = Tok("OL-cover")], now)

---------------------------------------------------------------------------
(* C17 *)

\* the four characters at position i are digits and no earlier four are
IsFirstYearAt(s, i) ==
    /\ i \in 1..(Len(s) - 3)
    /\ \A j \in 0..3 : IsDigitChar(s[i + j])
    /\ \A k \in 1..(i - 1) : \E j \in 0..3 : ~IsDigitChar(s[k + j])

HasYear(s) == \E i \in DOMAIN s : IsFirstYearAt(s, i)

ExtractedYear(s) == LET i == CHOOSE k \in DOMAIN s : IsFirstYearAt(s, k)
                    IN  ToInt(SubSeq(s, i, i + 3))

\* the date the first ten characters spell, <<>> when they spell none
LeadingDate(s) == Strptime(Prefix(s, 10))

\* the date part of the gate holds of the accepted record b at instant n:
\* a year can be extracted, it is within one year of the current year, and a
\* leading YYYY-MM-DD date (taken at midnight) is no earlier than 365 days
\* before n and no later than 90 days after n
DateWindowHolds(b, n) ==
    LET d == LeadingDate(b.published_date)
    IN  /\ HasYear(b.published_date)
        /\ ExtractedYear(b.published_date) \in (n.year - 1)..(n.year + 1)
        /\ d # <<>> =>
              /\ 2 * DayNumber(d[1], d[2], d[3]) >= Instant(n) - 2 * 365
              /\ 2 * DayNumber(d[1], d[2], d[3]) <= Instant(n) + 2 * 90

\* C17: the gate returns a verdict for every record and instant (it never
\* raises); a record from whose published date no four-digit year can be
\* extracted is rejected; every accepted record has its extracted year in
\* [current year - 1, current year + 1]; and every accepted record whose
\* published date begins with a parseable YYYY-MM-DD date has that date no
\* earlier than 365 days before now and no later than 90 days after now.
C17_DateWindow ==
    /\ GateDone =>
          /\ is_valid \in BOOLEAN
          /\ ~HasYear(gate_book.published_date) => ~is_valid
          /\ is_valid => DateWindowHolds(gate_book, now)

\* the gate has accepted a record dated exactly 365 days before the instant
\* of the call
C17_Witness ==
    /\ GateDone
    /\ is_valid
    /\ LeadingDate(gate_book.published_date) # <<>>
    /\ LET d == LeadingDate(gate_book.published_date)
       IN  2 * DayNumber(d[1], d[2], d[3]) = Instant(now) - 2 * 365

\* the gate has rejected, for its date alone, a record whose published date
\* holds no four-digit year
C17_NoYearWitness ==
    /\ GateDone
    /\ ~is_valid
    /\ MeetsStaticConditions(gate_book)
    /\ ~HasYear(gate_book.published_date)

\* the gate has rejected a record whose year is in range and whose leading
\* date is more than 90 days ahead
C17_TooFarAheadWitness ==
    /\ GateDone
    /\ ~is_valid
    /\ MeetsStaticConditions(gate_book)
    /\ HasYear(gate_book.published_date)
    /\ ExtractedYear(gate_book.published_date) = now.year + 1
    /\ LeadingDate(gate_book.published_date) # <<>>

---------------------------------------------------------------------------
(* C18 *)

ReleasesDone == req = "releases" /\ pc = "done"

\* what holds of the fetches issued so far: at most five; the k-th at offset
\* start_index + 40 * (k - 1); each issued when every candidate of the batch
\* before it had been gated, when fewer than limit valid candidates had been
\* accumulated, and when no earlier fetch had returned an empty batch
FetchDiscipline ==
    /\ Len(fetch_log) <= 5
    /\ \A k \in DOMAIN fetch_log :
          /\ fetch_log[k].offset = start_index + 40 * (k - 1)
          /\ fetch_log[k].gated_before
          /\ fetch_log[k].valid_before < limit
          /\ ~fetch_log[k].after_empty

\* C18: the widening loop of the new-releases request always terminates, and
\* whatever the paged source returns it issues at most MAX_DEPTH (5) fetches,
\* at offsets start_index, start_index + 40, start_index + 80, ..., each only
\* after every candidate of the previous batch has been gated, and none once
\* limit valid candidates have been accumulated or a fetch has returned an
\* empty batch.
C18_LoopTerminates == [](req = "releases" => FetchDiscipline) /\ <>ReleasesDone

\* a request starting at index 7 has ended after five fetches, the last at
\* offset 167, none of which gave it enough valid candidates
C18_Witness ==
    /\ ReleasesDone
    /\ start_index = 7
    /\ Len(fetch_log) = 5
    /\ fetch_log[5].offset = 167
    /\ Len(valid_books) < limit

\* a request has ended after two fetches because the second batch brought
\* the valid candidates up to limit
C18_LimitWitness ==
    /\ ReleasesDone
    /\ Len(fetch_log) = 2
    /\ fetch_log[2].valid_before = 1
    /\ Len(valid_books) >= limit
    /\ release_batch # <<>>

\* a request has ended after an empty batch, with depth and limit not reached
C18_EmptyBatchWitness ==
    /\ ReleasesDone
    /\ Len(fetch_log) = 3
    /\ release_batch = <<>>
    /\ Len(valid_books) < limit

---------------------------------------------------------------------------
(* C19 *)

\* the first candidate of each stated identity key, in the order accumulated
FirstOfEachDerivedKey(books) ==
    LET firsts == {i \in DOMAIN books :
                      \A j \in 1..(i - 1) : DerivedKey(books[j]) # DerivedKey(books[i])}
    IN  [p \in 1..Cardinality(firsts) |->
            books[CHOOSE i \in firsts : Cardinality({j \in firsts : j < i}) = p - 1]]

\* C19 as claimed: the list the new-releases request returns has at most
\* limit records, no two of them with the same identity key (the ISBN-13,
\* present or derived from the isbn10), and it is the first accumulated
\* candidate of each key, in order, cut to limit after the deduplication.
C19_DedupByIdentityKey_Claimed ==
    ReleasesDone =>
        /\ Len(release_list) <= limit
        /\ \A i, j \in DOMAIN release_list :
              i # j => DerivedKey(release_list[i]) # DerivedKey(release_list[j])
        /\ release_list = Prefix(FirstOfEachDerivedKey(valid_books), limit)

---------------------------------------------------------------------------
(* C20 *)

\* the lookup has gathered its three source results and has ended
LookupAnswered == req = "lookup" /\ pc = "done" /\ http_error # 400

\* the sources whose result is not empty
NonEmptySources ==
    (IF google_volume # EmptyDict THEN {GoogleBooks} ELSE {})
    \cup (IF open_library_book # EmptyDict THEN {OpenLibrary} ELSE {})
    \cup (IF loc_data # EmptyDict THEN {LibraryOfCongress} ELSE {})

\* the place of a source in the order Google, Open Library, Library of Congress
SourceRank(name) ==
    IF name = GoogleBooks THEN 1 ELSE IF name = OpenLibrary THEN 2 ELSE 3

\* C20: the direct lookup answers NotFound (404) exactly when the results of
\* Google, Open Library and the Library of Congress are all empty; otherwise
\* it returns a record whose data_sources lists exactly the sources with a
\* non-empty result, each once, in the order Google, Open Library, Library
\* of Congress.
C20_NotFoundIffAllEmpty ==
    LookupAnswered =>
        /\ http_error = 404 <=> NonEmptySources = {}
        /\ http_error # 404 =>
              /\ http_error = 0
              /\ Range(merged_book.data_sources) = NonEmptySources
              /\ Len(merged_book.data_sources) = Cardinality(NonEmptySources)
              /\ \A i, j \in DOMAIN merged_book.data_sources :
                    i < j => SourceRank(merged_book.data_sources[i])
                                < SourceRank(merged_book.data_sources[j])

\* a lookup by ISBN for which Google had nothing has returned a record that
\* names Open Library and the Library of Congress, in this order
C20_Witness ==
    /\ LookupAnswered
    /\ http_error = 0
    /\ google_volume = EmptyDict
    /\ merged_book.data_sources = <<OpenLibrary, LibraryOfCongress>>

\* a lookup for which the three sources had nothing has answered NotFound
C20_NotFoundWitness ==
    /\ LookupAnswered
    /\ http_error = 404
    /\ Len(isbn) = 13

---------------------------------------------------------------------------
(* Properties of the tagging, of detect_series and of classify_format *)

MapDone == req = "map" /\ pc = "done"

LookupReturned == req = "lookup" /\ pc = "done" /\ http_error = 0

\* the normalized categories of the mapped item, before any tagging
MapperNormalized ==
    _process_rich_categories(Get(Get(map_item, "volumeInfo", EmptyDict), "categories", <<>>))

\* the normalized subjects of Google, Open Library and the work record
\* together, as the lookup combines them before any tagging (main.py 866-878)
LookupNormalized ==
    LET work_tags == IF DictTruthy(work_data)
                     THEN Get(work_data, "subjects", <<>>)
                            \o Get(work_data, "subject_places", <<>>)
                            \o Get(work_data, "subject_times", <<>>)
                     ELSE <<>>
    IN  SortedStrings(
            Range(_process_rich_categories(
                     Get(Get(google_volume, "volumeInfo", EmptyDict), "categories", <<>>)))
            \cup Range(_process_rich_categories(Get(open_library_book, "subjects", <<>>)))
            \cup Range(_process_rich_categories(work_tags)))

\* C21: the keyword tagger is applied only when there are fewer than two
\* normalized tags: with two or more, the subjects of the record are exactly
\* the normalized tags and no keyword-inferred tag is added, in the Google
\* search mapper and in the direct lookup (whose subjects are read as the
\* record is constructed, before the Library of Congress data is merged in).
C21_TaggerBelowTwo_Claimed ==
    /\ MapDone => (Len(MapperNormalized) >= 2
                      => mapped_item.categories = MapperNormalized)
    /\ LookupReturned => (Len(LookupNormalized) >= 2
                      => pre_loc_book.subjects = LookupNormalized)

\* the half of C21 that is about the Google search mapper
C21_MapperHalf ==
    MapDone => (Len(MapperNormalized) >= 2 => mapped_item.categories = MapperNormalized)

\* the mapper has returned an item with two normalized tags whose description
\* holds a keyword
C21_MapperCase ==
    /\ MapDone
    /\ Len(MapperNormalized) = 2
    /\ "description" \in DOMAIN map_item.volumeInfo

CategoriesDone == req = "categories" /\ pc = "done"

\* a tag is non-empty and trimmed, holds no "/" and no "--", and is not a
\* stop word whatever its case
WellFormedTag(t) ==
    /\ t # <<>>
    /\ StrStrip(t) = t
    /\ \A i \in DOMAIN t : t[i] # "/"
    /\ \A i \in 1..(Len(t) - 1) : ~(t[i] = "-" /\ t[i + 1] = "-")
    /\ StrLower(t) \notin StopWords

\* C22: _process_rich_categories is idempotent as a set function: applied to
\* its own output it returns the same set of tags, for every list of raw
\* category strings and {name} objects; and every tag it returns is
\* non-empty, trimmed, without "/" and "--", and no stop word in any case.
C22_NormalizerIdempotent ==
    /\ CategoriesDone => Range(tags_again) = Range(tags)
    /\ req = "categories" => \A i \in DOMAIN tags : WellFormedTag(tags[i])

\* the normalizer has split, trimmed and filtered a list, and has returned
\* the same tags for its output
C22_Witness ==
    /\ CategoriesDone
    /\ categories_in = << RawStr(<<"F","i","c","t","i","o","n"," ","/"," ","F","a","n","t","a","s","y">>), RawStr(<<" ","G","e","n","e","r","a","l"," ">>) >>
    /\ tags = << <<"F","a","n","t","a","s","y">>, <<"F","i","c","t","i","o","n">> >>
    /\ tags_again = tags

\* a list with a "--" separator, a doubled "/" and an object with a name
C22_SeparatorsWitness ==
    /\ CategoriesDone
    /\ categories_in = << RawStr(<<"a","/","/","b","-","-">>), RawDict([name |-> <<"J","u","v","e","n","i","l","e"," ","F","i","c","t","i","o","n"," ","/"," ","L","o","v","e"," ">>]) >>
    /\ tags = << <<"L","o","v","e">>, <<"a">>, <<"b">> >>

\* the title and the subtitle detect_series was called with (main.py 448)
SeriesArgs(item) ==
    << Get(Get(item, "volumeInfo", EmptyDict), "title", <<>>),
       Get(Get(item, "volumeInfo", EmptyDict), "subtitle", None) >>

AllSpaces(s, i, j) == i <= j /\ \A k \in i..j : IsSpace(s[k])

AllDigits(s, i, j) == i <= j /\ \A k \in i..j : IsDigitChar(s[k])

\* what re.search captures for each of the four patterns in the text s, by
\* the rules of the regular expressions: of all the ways the pattern matches,
\* the one that starts leftmost, with a lazy group as short and a greedy
\* group as long as possible.  The value is <<name, order>>, order -1 where
\* the pattern has no order group, or <<>> where the pattern does not match.
Captured(s, p) ==
    LET n == Len(s)
        At(word) == {b \in 1..n : WordAt(s, b, word)}
        \* <name, ","?, \s+, Book, \s+, digits>: name s[i..a], digits s[c..d]
        ways1 == UNION { { <<i, a, c, d>> \in (1..(b - 1)) \X (1..(b - 1))
                                              \X ((b + 5)..n) \X ((b + 5)..n) :
                               /\ i <= a
                               /\ \/ AllSpaces(s, a + 1, b - 1)
                                  \/ s[a + 1] = "," /\ AllSpaces(s, a + 2, b - 1)
                               /\ AllSpaces(s, b + 4, c - 1)
                               /\ AllDigits(s, c, d) } : b \in At(<<"b","o","o","k">>) }
        first1 == CHOOSE m \in ways1 : \A o \in ways1 :
                      \/ m[1] < o[1]
                      \/ m[1] = o[1] /\ m[2] < o[2]
                      \/ m[1] = o[1] /\ m[2] = o[2] /\ m[4] >= o[4]
        \* <Book, \s+, digits, \s+, of, \s+, name>: digits s[c..d], name s[f..g]
        ways2 == UNION { { <<h, c, d, f, g>> \in {b} \X ((b + 5)..n) \X ((b + 5)..n)
                                                 \X ((b + 5)..n) \X ((b + 5)..n) :
                               /\ AllSpaces(s, b + 4, c - 1)
                               /\ AllDigits(s, c, d)
                               /\ \E e \in (d + 2)..(f - 3) :
                                     /\ AllSpaces(s, d + 1, e - 1)
                                     /\ WordAt(s, e, <<"o","f">>)
                                     /\ AllSpaces(s, e + 2, f - 1)
                               /\ f <= g } : b \in At(<<"b","o","o","k">>) }
        first2 == CHOOSE m \in ways2 : \A o \in ways2 :
                      \/ m[1] < o[1]
                      \/ m[1] = o[1] /\ m[3] > o[3]
                      \/ m[1] = o[1] /\ m[3] = o[3] /\ m[4] > o[4]
                      \/ m[1] = o[1] /\ m[3] = o[3] /\ m[4] = o[4] /\ m[5] >= o[5]
        \* <name, \s+, word>: name s[i..a]
        ways(word) == UNION { { <<i, a>> \in (1..(w - 1)) \X (1..(w - 1)) :
                                    i <= a /\ AllSpaces(s, a + 1, w - 1) } :
                              w \in At(word) }
        first(word) == CHOOSE m \in ways(word) : \A o \in ways(word) :
                           m[1] < o[1] \/ (m[1] = o[1] /\ m[2] <= o[2])
        named(word) == IF ways(word) = {} THEN <<>>
                       ELSE << StrStrip(SubSeq(s, first(word)[1], first(word)[2])), -1 >>
    IN  IF p = 1
        THEN (IF ways1 = {} THEN <<>>
              ELSE << StrStrip(SubSeq(s, first1[1], first1[2])),
                      ToInt(SubSeq(s, first1[3], first1[4])) >>)
        ELSE IF p = 2
        THEN (IF ways2 = {} THEN <<>>
              ELSE << StrStrip(SubSeq(s, first2[4], first2[5])),
                      ToInt(SubSeq(s, first2[2], first2[3])) >>)
        ELSE IF p = 3 THEN named(<<"t","r","i","l","o","g","y">>)
        ELSE named(<<"s","e","r","i","e","s">>)

\* the series the four patterns give, tried in their order: the capture of
\* the first pattern whose name has at most 50 characters and is none of
\* "fiction", "novel", "edition" in any case; <<>> when there is none
SeriesAsStated(args) ==
    LET s == args[1] \o <<" ">> \o (IF Truthy(args[2]) THEN args[2] ELSE <<>>)
        Acceptable(m) == /\ m # <<>>
                         /\ Len(m[1]) <= 50
                         /\ StrLower(m[1]) \notin { <<"f","i","c","t","i","o","n">>, <<"n","o","v","e","l">>, <<"e","d","i","t","i","o","n">> }
        ok == {p \in 1..4 : Acceptable(Captured(s, p))}
    IN  IF ok = {} THEN <<>>
        ELSE Captured(s, CHOOSE p \in ok : \A o \in ok : p <= o)

\* SeriesAsStated for the titles and subtitles of the items
StatedSeries == [args \in {SeriesArgs(item) : item \in MapItems} |-> SeriesAsStated(args)]

\* the series of a mapped item, in the shape of StatedSeries
SeriesOf(item) ==
    IF ~DictTruthy(item.series) THEN <<>>
    ELSE << item.series.name,
            IF item.series.order = None THEN -1 ELSE ToInt(item.series.order) >>

\* C23: detect_series tries the four patterns "<name>, Book <N>",
\* "Book <N> of <name>", "<name> Trilogy", "<name> Series" in this order,
\* ignoring case, and returns the capture of the first pattern whose name has
\* at most 50 characters and is not "fiction", "novel" or "edition" in any
\* case; a rejected capture falls through to the next pattern, and the
\* result is None when no pattern gives an acceptable name.  "Dune, Book 1"
\* gives the name "Dune" with order 1, "The Hobbit" gives None.
C23_SeriesPatternsInOrder ==
    MapDone =>
        /\ SeriesOf(mapped_item) = StatedSeries[SeriesArgs(map_item)]
        /\ SeriesArgs(map_item) = << <<"D","u","n","e",","," ","B","o","o","k"," ","1">>, None >>
              => mapped_item.series = [name |-> <<"D","u","n","e">>, order |-> <<"1">>]
        /\ SeriesArgs(map_item) = << <<"T","h","e"," ","H","o","b","b","i","t">>, None >>
              => mapped_item.series = EmptyDict

\* the first pattern captured the rejected name "Fiction" and the second
\* pattern gave the series
C23_Witness ==
    /\ MapDone
    /\ SeriesArgs(map_item) = << <<"F","i","c","t","i","o","n",","," ","B","o","o","k"," ","1"," ","o","f"," ","D","u","n","e">>, None >>
    /\ mapped_item.series = [name |-> <<"D","u","n","e">>, order |-> <<"1">>]

\* the example of the statement
C23_DuneWitness ==
    /\ MapDone
    /\ SeriesArgs(map_item) = << <<"D","u","n","e",","," ","B","o","o","k"," ","1">>, None >>
    /\ mapped_item.series = [name |-> <<"D","u","n","e">>, order |-> <<"1">>]

\* a name of 51 characters is rejected and no other pattern matches
C23_LongNameWitness ==
    /\ MapDone
    /\ Len(SeriesArgs(map_item)[1]) = MaxSeriesName + 1 + 8
    /\ mapped_item.series = EmptyDict

\* the third pattern gave a series without an order
C23_TrilogyWitness ==
    /\ MapDone
    /\ SeriesArgs(map_item) = << <<"E","d","i","t","i","o","n"," ","b","o","o","k"," ","0","4"," ","T","r","i","l","o","g","y">>, None >>
    /\ mapped_item.series = [name |-> <<"E","d","i","t","i","o","n"," ","b","o","o","k"," ","0","4">>, order |-> None]

\* C24: classify_format gives "Unknown Format" for an absent pageCount; for
\* a present pageCount, "Short Story" below 50 (0 included), "Novella" from
\* 50 to 149 whether or not the volume is an eBook, and from 150 on "eBook"
\* for an eBook and "Novel" otherwise.
C24_FormatByPageCount_Claimed ==
    MapDone =>
        LET pages == Get(Get(map_item, "volumeInfo", EmptyDict), "pageCount", None)
            is_ebook == Get(Get(map_item, "saleInfo", EmptyDict), "isEbook", FALSE)
        IN  mapped_item.format_tag =
                IF pages = None THEN Tok("Unknown Format")
                ELSE IF ToInt(pages) < 50 THEN Tok("Short Story")
                ELSE IF ToInt(pages) < 150 THEN Tok("Novella")
                ELSE IF is_ebook THEN Tok("eBook")
                ELSE Tok("Novel")

\* the statement of C24 for every pageCount but 0
C24_FormatButZero ==
    MapDone =>
        LET pages == Get(Get(map_item, "volumeInfo", EmptyDict), "pageCount", None)
            is_ebook == Get(Get(map_item, "saleInfo", EmptyDict), "isEbook", FALSE)
        IN  (pages = None \/ ToInt(pages) # 0) =>
            mapped_item.format_tag =
                IF pages = None THEN Tok("Unknown Format")
                ELSE IF ToInt(pages) < 50 THEN Tok("Short Story")
                ELSE IF ToInt(pages) < 150 THEN Tok("Novella")
                ELSE IF is_ebook THEN Tok("eBook")
                ELSE Tok("Novel")

---------------------------------------------------------------------------
(* Frame, order and identity properties of the search merge and the lookup *)

\* C25: the search merge never mutates its inputs: when
\* _merge_and_deduplicate_results has returned, every input record object
\* has the field values (authors, data_sources, format_tag,
\* open_library_work_id, lccn) it had when the merge was called, and no
\* returned record is or shares a list with an input record object.
C25_InputsUntouched_Claimed ==
    SearchDone =>
        /\ \A id \in DOMAIN heap0 : heap[id] = heap0[id]
        /\ \A i \in DOMAIN final_list : final_list[i] \notin DOMAIN heap0

\* the handler has gone past its gather: the search merge has been called,
\* or the lookup is building or has returned its record
MergeStarted ==
    \/ req = "search" /\ pc \notin {"start", "gather"}
    \/ req = "lookup" /\ pc = "build"
    \/ req = "lookup" /\ pc = "done" /\ http_error = 0

\* the results of the branches that return record objects
RecordBranches == SubSeq(results_tuple, 1, Len(results_tuple) - 1)

\* C26: for one search or lookup request the merge and the scoring start
\* only after every fetch of the fan-out (Google, Open Library, Library of
\* Congress, and the exact-phrase variants) has completed: no result is
\* made from a subset of the branches, the merge reads the result of every
\* branch, and no two branches share a result list or a record object.
C26_MergeAfterAllFetches ==
    /\ MergeStarted =>
          /\ done = Range(tasks)
          /\ Len(results_tuple) = Len(tasks)
    /\ (req = "search" /\ MergeStarted) =>
          /\ Range(google_results) \cup Range(ol_results)
                = UNION {Range(RecordBranches[i]) : i \in DOMAIN RecordBranches}
          /\ Len(google_results) + Len(ol_results)
                = Cardinality(Range(google_results) \cup Range(ol_results))
          /\ loc_results = results_tuple[Len(results_tuple)]
          /\ \A i, j \in DOMAIN RecordBranches :
                i # j => Range(RecordBranches[i]) \cap Range(RecordBranches[j]) = {}
    /\ (req = "lookup" /\ MergeStarted) =>
          <<google_volume, open_library_book, loc_data>> = results_tuple
    /\ (req \in {"search", "lookup"} /\ ~MergeStarted) =>
          /\ merged_books = <<>>
          /\ final_list = <<>>
          /\ merged_book = EmptyDict

\* a multi-word search has merged and sorted the results of its five
\* branches, the two exact-phrase branches among them
C26_Witness ==
    /\ req = "search"
    /\ pc = "done"
    /\ Len(tasks) = 5
    /\ results_tuple[1] # <<>>
    /\ results_tuple[2] # <<>>
    /\ final_list # <<>>

\* two of three fetches have completed and the handler is still in its gather
C26_PendingWitness ==
    /\ req = "lookup"
    /\ pc = "fetch"
    /\ Cardinality(done) = 2
    /\ merged_book = EmptyDict

\* C27: when the new-releases request returns fewer than limit records, the
\* source was exhausted: MAX_DEPTH batches had been fetched and gated, or the
\* last fetch returned an empty batch.
C27_FewerMeansExhausted_Claimed ==
    (ReleasesDone /\ Len(release_list) < limit) =>
        \/ depth = MAX_DEPTH
        \/ (fetch_log # <<>> /\ release_batch = <<>>)

\* the places in a list of input records of the records with identity key k,
\* the key being the one the merge computes (main.py 533, 537)
PlacesOfKey(list, k) == {i \in DOMAIN list : IdentityKey(heap0[list[i]]) = k}

\* C28: when several records of one source list share an identity key, the
\* merged record is built from the first of them in list order, for the
\* Google list and for the Open Library list; in the multi-word search, where
\* the exact-phrase results stand before the plain results in each list, the
\* exact-phrase record is the one kept.
C28_FirstOfListKept_Claimed ==
    SearchDone =>
        \A e \in Range(merged_books) :
            LET in_google == PlacesOfKey(google_results, e.key)
                in_ol == PlacesOfKey(ol_results, e.key)
                first(S) == CHOOSE i \in S : \A j \in S : i <= j
            IN  /\ in_google # {} => e.ref = google_results[first(in_google)]
                /\ (in_google = {} /\ in_ol # {}) => e.ref = ol_results[first(in_ol)]
                /\ (Len(tasks) = 5 /\ PlacesOfKey(results_tuple[2], e.key) # {})
                      => e.ref \in Range(results_tuple[2])

\* the statement of C28 for the Open Library list alone
C28_FirstOfOpenLibraryKept ==
    SearchDone =>
        \A e \in Range(merged_books) :
            LET in_ol == PlacesOfKey(ol_results, e.key)
            IN  (PlacesOfKey(google_results, e.key) = {} /\ in_ol # {})
                    => e.ref = ol_results[CHOOSE i \in in_ol : \A j \in in_ol : i <= j]

\* C30: a query boost (exact title, indie rescue, exact author) is awarded
\* only when the normalized query is non-empty and equals the normalized
\* title or author name: a query without any character in a-z0-9 gives a
\* record the score it has with no query at all, a record whose title or
\* author name normalizes to the empty string included.
C30_EmptyQueryNoBoost_Claimed ==
    (ScoreDone /\ Norm(scored_query) = <<>>) =>
        score = score_book(scored_book, <<>>)

\* C29: every record the direct lookup returns has an isbn_13 that is a
\* 13-digit string with a correct ISBN-13 check digit; an identifier taken as
\* an alternate (LCCN-like) identifier is looked up in the Library of Congress
\* source only and is never stored as the record's ISBN-13.
C29_LookupIsbn13Valid_Claimed ==
    LookupReturned =>
        /\ Len(merged_book.isbn_13) = 13
        /\ StrIsDigit(merged_book.isbn_13)
        /\ _is_valid_isbn13_checksum(merged_book.isbn_13)
        /\ IsLccnMode(isbn) =>
              /\ results_tuple[1] = EmptyDict
              /\ results_tuple[2] = EmptyDict
              /\ merged_book.isbn_13 # isbn

\* the half of C29 about the sources asked in the alternate-identifier mode
C29_LccnAsksLocOnly ==
    (LookupReturned /\ IsLccnMode(isbn)) =>
        /\ results_tuple[1] = EmptyDict
        /\ results_tuple[2] = EmptyDict
        /\ DictTruthy(results_tuple[3])

=============================================================================
